---- MODULE Spec2Model ----
(***************************************************************************)
(* Model of the numerical fitting library of Angular5-Deeplearn:           *)
(* TSMT$Deviates (seeded deviate generator), TSMT$Bagging (resampler),     *)
(* TSMT$LLSQ (simple linear least squares), TSMT$Pllsq (polynomial least   *)
(* squares) and TSMT$Bllsq (bagged linear least squares).                  *)
(*                                                                         *)
(* JavaScript numbers are modelled as exact values: a number is a record   *)
(* [n, d] standing for n/d in lowest terms with d > 0, and the three       *)
(* IEEE specials are NaN = 0/0, +Infinity = 1/0, -Infinity = -1/0.         *)
(* Rounding error of double arithmetic is not modelled.  Arrays are        *)
(* sequences: the code's index i is the model's index i + 1.               *)
(***************************************************************************)
EXTENDS Integers, Sequences, FiniteSets, TLC

VARIABLES
  dev,       \* the TSMT$Deviates instance under test: [idum, iv]
  dist,      \* its other fields: [normVal, u, s, a, b, a1, a2]
  out,       \* values returned by uniform since the last uniform(s, true)
  lastSeed,  \* the start argument of the last call that re-initialised, or Undefined
  last,      \* the last re-initialising calls: [loc] normal or logistic, [gam] gamma
  ncalls,    \* number of calls made so far
  deviates,  \* TSMT$Bagging.__deviates, the resampler's static generator
  call,      \* the library call in progress or last made: [op, ...arguments]
  ret,       \* its outcome: [threw, val] (val an object reference or a value)
  picked,    \* the source indices the last sampling call drew, set by set
  heap,      \* the objects the estimator calls have returned, by reference
  pl,        \* the TSMT$Pllsq instance: [c, n], c a reference to its array
  prev,      \* the outcome of the call before the last one
  fitted,    \* the coefficients the last successful TSMT$Pllsq.fit computed and
             \* the array that holds them: [coef, ref], or Undefined
  pc,        \* position of the caller
  app        \* the AppComponent: its data, its model parameters and the position
             \* of the training it started

vars ==
  <<dev, dist, out, lastSeed, last, ncalls, deviates, call, ret, picked, heap, pl,
    prev, fitted, pc, app>>

(***************************************************************************)
(* Bounds of the model                                                     *)
(***************************************************************************)
MaxCalls == 7      \* uniform calls per behaviour
MaxN     == 3      \* longest data array handed to the resampler
MaxSets  == 2      \* largest numSets handed to the resampler
MaxPts   == 4      \* longest data array handed to an estimator
MaxPolyCalls == 3  \* calls made on the TSMT$Pllsq instance per behaviour
MaxDevCalls == 3   \* calls made on one TSMT$Deviates instance per behaviour
MaxGammaPasses == 2  \* passes of the loop of gamma that are followed

\* F(v) with v evaluated once, before F: TLC evaluates operator arguments and
\* LET definitions on demand, every time they are used, while a bound variable
\* holds a value
Bind(v, F(_)) == CHOOSE r \in {F(x) : x \in {v}} : TRUE

\* JS values are records: a number is [n, d], an array argument is [arr], and
\* these are undefined and null
Undefined == [undefined |-> TRUE]

Null == [null |-> TRUE]

Arr(elems) == [arr |-> elems]

IsArray(v) == DOMAIN v = {"arr"}

\* a reference to the k-th object of the heap
Ref(k) == [ref |-> k]

\* the outcome of a call: a value returned or an exception thrown
Return(v) == [threw |-> FALSE, val |-> v]

Throw(e) == [threw |-> TRUE, val |-> e]

TypeError == [error |-> "TypeError"]

\* a new object (an object or array literal, new Array())
Alloc(h, obj) == [heap |-> Append(h, obj), ref |-> Ref(Len(h) + 1)]

(***************************************************************************)
(* JS numbers                                                              *)
(***************************************************************************)
Abs(k) == IF k < 0 THEN -k ELSE k

Sign(k) == IF k < 0 THEN -1 ELSE IF k > 0 THEN 1 ELSE 0

RECURSIVE Gcd(_, _)
Gcd(a, b) == IF b = 0 THEN a ELSE Gcd(b, a % b)

\* n/d in lowest terms; a zero denominator gives NaN or a signed infinity
Q(n, d) ==
  IF d = 0 THEN [n |-> Sign(n), d |-> 0]
  ELSE LET g == Gcd(Abs(n), Abs(d))
       IN  [n |-> Sign(d) * (n \div g), d |-> Abs(d) \div g]

R(k) == [n |-> k, d |-> 1]

NaN == [n |-> 0, d |-> 0]

PosInf == [n |-> 1, d |-> 0]

IsNum(v) == DOMAIN v = {"n", "d"}

\* a value used as an operand: undefined converts to NaN
ToNum(v) == IF IsNum(v) THEN v ELSE NaN

IsNaN(v) == ToNum(v) = NaN

IsFinite(v) == IsNum(v) /\ v.d # 0

\* the operands of an operation are evaluated once, before it
Add(p0, q0) ==
  Bind(ToNum(p0), LAMBDA p : Bind(ToNum(q0), LAMBDA q :
    IF p = NaN \/ q = NaN THEN NaN
    ELSE IF p.d = 0 /\ q.d = 0 THEN (IF p.n = q.n THEN p ELSE NaN)
    ELSE IF p.d = 0 THEN p
    ELSE IF q.d = 0 THEN q
    ELSE Q(p.n * q.d + q.n * p.d, p.d * q.d)))

Neg(p0) == Bind(ToNum(p0), LAMBDA p : [n |-> -p.n, d |-> p.d])

Sub(p, q) == Add(p, Neg(q))

Mul(p0, q0) ==
  Bind(ToNum(p0), LAMBDA p : Bind(ToNum(q0), LAMBDA q :
    IF p = NaN \/ q = NaN THEN NaN ELSE Q(p.n * q.n, p.d * q.d)))

Div(p0, q0) ==
  Bind(ToNum(p0), LAMBDA p : Bind(ToNum(q0), LAMBDA q :
    IF p = NaN \/ q = NaN THEN NaN
    ELSE IF p.d = 0 /\ q.d = 0 THEN NaN
    ELSE IF p.d = 0 THEN [n |-> IF q.n < 0 THEN -p.n ELSE p.n, d |-> 0]
    ELSE Q(p.n * q.d, p.d * q.n)))

\* p < q as JS evaluates it: false when either side is NaN
Lt(p0, q0) ==
  Bind(ToNum(p0), LAMBDA p : Bind(ToNum(q0), LAMBDA q :
    /\ p # NaN
    /\ q # NaN
    /\ p # q
    /\ IF p.d = 0 THEN p.n < 0
       ELSE IF q.d = 0 THEN q.n > 0
       ELSE p.n * q.d < q.n * p.d))

\* the integer part of the root of k >= 0, found from an estimate r above it
RECURSIVE ISqrtFrom(_, _)
ISqrtFrom(k, r) ==
  IF r = 0 THEN 0
  ELSE Bind((r + k \div r) \div 2,
            LAMBDA nx : IF nx >= r THEN r ELSE ISqrtFrom(k, nx))

ISqrt(k) == ISqrtFrom(k, k)

\* Math.sqrt of a number >= 0 whose root is rational; other roots are kept as
\* the symbolic value [sqrtOf |-> v]
Sqrt(p0) ==
  Bind(ToNum(p0), LAMBDA p :
    IF p = NaN \/ p.n < 0 THEN NaN
    ELSE IF p.d = 0 THEN p
    ELSE Bind(ISqrt(p.n), LAMBDA rn : Bind(ISqrt(p.d), LAMBDA rd :
           IF rn * rn = p.n /\ rd * rd = p.d THEN Q(rn, rd)
           ELSE [sqrtOf |-> p])))

\* Math.sqrt(p) * Math.sqrt(q) for p, q >= 0: the root of the product
SqrtMul(p0, q0) ==
  Bind(ToNum(p0), LAMBDA p : Bind(ToNum(q0), LAMBDA q :
    IF p = NaN \/ q = NaN \/ p.n < 0 \/ q.n < 0 THEN NaN
    ELSE Sqrt(Mul(p, q))))

\* <<quotient, remainder>> of 2 * (h[1] * m + h[2]) by m
Doubled(h, m) ==
  IF h[2] >= m - h[2] THEN <<2 * h[1] + 1, h[2] - (m - h[2])>>
  ELSE <<2 * h[1], h[2] + h[2]>>

\* <<quotient, remainder>> of dd[1] * m + dd[2] + a by m
Added(dd, a, m) ==
  IF dd[2] >= m - a THEN <<dd[1] + 1, dd[2] - (m - a)>> ELSE <<dd[1], dd[2] + a>>

\* <<quotient, remainder>> of a * b by m for 0 <= a < m, without leaving 31 bits
RECURSIVE MulDivMod(_, _, _)
MulDivMod(a, b, m) ==
  IF b = 0 THEN <<0, 0>>
  ELSE Bind(MulDivMod(a, b \div 2, m),
            LAMBDA h : Bind(Doubled(h, m),
                            LAMBDA dd : IF b % 2 = 0 THEN dd ELSE Added(dd, a, m)))

\* Math.floor(a * b / m) for a >= 0, b >= 0, m > 0
MulDivFloor(a, b, m) == (a \div m) * b + MulDivMod(a % m, b, m)[1]

(***************************************************************************)
(* TSMT$Deviates                                                           *)
(***************************************************************************)
IA == 16807

IM == 2147483647

IQ == 127773

IR == 2836

NTAB == 32

\* NDIV = 1 + (IM-1)/NTAB is 67108864.9375 in JS (no integer division):
\* NDIVx16 is 16 * NDIV
NDIVx16 == 1073741839

\* RNMX = 1.0 - 1.2e-7
RNMX == [n |-> 24999997, d |-> 25000000]

\* AM * iy > RNMX exactly when iy > RNMXxIM = floor(RNMX * IM)
RNMXxIM == 2147483389

\* the constructor's state
NewDeviates == [idum |-> 0, iv |-> <<>>]

NewDist ==
  [normVal |-> R(0), u |-> R(0), s |-> R(1), a |-> R(1), b |-> R(1),
   a1 |-> R(0), a2 |-> R(0)]

\* an update that leaves a negative difference as it is
SchrageNoWrap(idum) ==
  LET k == idum \div IQ
  IN  IA * (idum - k * IQ) - IR * k

\* one update of the generator (Schrage's decomposition)
Schrage(idum) ==
  LET k == idum \div IQ
      t == IA * (idum - k * IQ) - IR * k
  IN  IF t < 0 THEN t + IM ELSE t

\* the starting state for a re-initialised sequence
StartIdum(start) == IF IsNaN(start) \/ Lt(start, R(1)) THEN 1 ELSE start.n

\* one pass of the warm-up loop: the generator is updated and, for j < NTAB,
\* iv[j] receives it (the table was emptied and j descends: each value goes in
\* front)
SeedStep(j, st) ==
  Bind(Schrage(st.idum),
       LAMBDA next : [idum |-> next,
                      iv   |-> IF j < NTAB THEN <<next>> \o st.iv ELSE st.iv])

\* count >= 1 passes of the warm-up loop, from j downwards (evaluated half by
\* half, which keeps the evaluation shallow)
RECURSIVE SeedSteps(_, _, _)
SeedSteps(j, count, st) ==
  IF count = 1 THEN SeedStep(j, st)
  ELSE Bind(SeedSteps(j, count \div 2, st),
            LAMBDA mid : SeedSteps(j - count \div 2, count - count \div 2, mid))

\* the warm-up loop, j running from NTAB+7 down to 0
SeedLoop(j, st) == IF j < 0 THEN st ELSE SeedSteps(j, j + 1, st)

\* this._iv.length = 0; this._idum = ...; and the warm-up loop
Seeded(start) == SeedLoop(NTAB + 7, [idum |-> StartIdum(start), iv |-> <<>>])

\* AM * iv[j], limited to RNMX; an empty slot reads undefined and scales to NaN
\* (the table is a sequence: the code's iv[j] is the model's iv[j + 1])
Scaled(iv, j) ==
  IF j + 1 \notin DOMAIN iv THEN NaN
  ELSE IF iv[j + 1] > RNMXxIM THEN RNMX
  ELSE Q(iv[j + 1], IM)

\* iv[j] = v
WriteSlot(iv, j, v) ==
  IF j + 1 \in DOMAIN iv THEN [iv EXCEPT ![j + 1] = v] ELSE Append(iv, v)

\* the part of uniform after the optional re-initialisation: g0 is the state it
\* starts from; iy is a local that starts at 0 and is iv[0] after re-initialising
UniformFrom(g0, init) ==
  LET iy0  == IF init THEN g0.iv[1] ELSE 0
      idum == Schrage(g0.idum)
      j    == MulDivFloor(iy0, 16, NDIVx16)
  IN  [g |-> [idum |-> idum, iv |-> WriteSlot(g0.iv, j, idum)],
       val |-> Scaled(g0.iv, j)]

\* a re-initialisation that keeps a generator state that is already running
UniformKeepsRunning(g, start, init) ==
  Bind(IF init THEN Seeded(IF g.idum > 0 THEN R(g.idum) ELSE start) ELSE g,
       LAMBDA g0 : UniformFrom(g0, init))

\* uniform(start, init): the instance after the call and the value returned
Uniform(g, start, init) ==
  Bind(IF init THEN Seeded(start) ELSE g, LAMBDA g0 : UniformFrom(g0, init))

(***************************************************************************)
(* TSMT$Deviates: exponential, normal, gamma, logistic.  Logarithms and    *)
(* irrational roots are kept as symbols; comparisons are made on the exact *)
(* values                                                                  *)
(***************************************************************************)
\* the outcome of a call whose loop never ends
NoReturn == [loops |-> TRUE]

\* the generator and the cached fields a call leaves, and what its caller gets
Outcome(g, d, r) == [g |-> g, d |-> d, ret |-> r]

\* -Math.log(v)
NegLog(v) == IF IsNaN(v) THEN NaN ELSE [negLogOf |-> v]

\* while (tmp == 0.0) tmp = this.uniform(start, init): a pass that leaves the
\* generator as it found it (every pass that re-initialises does) is repeated
\* forever
RECURSIVE ExponentialLoop(_, _, _, _)
ExponentialLoop(g, d, start, init) ==
  Bind(Uniform(g, start, init),
       LAMBDA un :
         IF un.val # R(0) THEN Outcome(un.g, d, Return(NegLog(un.val)))
         ELSE IF init \/ un.g = g THEN Outcome(un.g, d, NoReturn)
         ELSE ExponentialLoop(un.g, d, start, init))

\* exponential(start, init)
Deviates_exponential(g, d, start, init) == ExponentialLoop(g, d, start, init)

\* if (init) { this._u = ...; this._s = ...; }
Located(d, mu, sig, init) ==
  IF init
  THEN [d EXCEPT !.u = IF IsNaN(mu) \/ Lt(mu, R(0)) THEN R(0) ELSE mu,
                 !.s = IF IsNaN(sig) \/ Lt(sig, R(1)) THEN R(1) ELSE sig]
  ELSE d

\* IM * |2.0*u - 1.0| for a deviate u = p / IM below RNMX
Centred(un) == IF un.d = IM THEN Abs(un.n - (IM - un.n)) ELSE IM

\* a * a + b * b >= IM * IM for 0 <= a < IM and 0 <= b < IM
SquaresReachIM(a, b) ==
  Bind(<<MulDivMod(a, a, IM), MulDivMod(b, b, IM)>>,
       LAMBDA sq : sq[1][1] >= IM - sq[2][1]
                                  - (IF sq[1][2] >= IM - sq[2][2] THEN 1 ELSE 0))

\* with v1 = 2.0*RNMX - 1.0 and v2 = a / IM, v1*v1 + v2*v2 >= 1 exactly when
\* a >= ClampedEdge
ClampedEdge == 1487821

\* rsq >= 1.0 || rsq == 0.0 for v1 = 2.0*u1 - 1.0, v2 = 2.0*u2 - 1.0 and
\* rsq = v1*v1 + v2*v2
Rejected(u1, u2) ==
  IF IsNaN(u1) \/ IsNaN(u2) THEN FALSE
  ELSE IF u1 = RNMX /\ u2 = RNMX THEN TRUE
  ELSE IF u1 = RNMX THEN Centred(u2) >= ClampedEdge
  ELSE IF u2 = RNMX THEN Centred(u1) >= ClampedEdge
  ELSE Bind(<<Centred(u1), Centred(u2)>>,
            LAMBDA ab : \/ ab[1] = IM
                        \/ ab[2] = IM
                        \/ (ab[1] = 0 /\ ab[2] = 0)
                        \/ SquaresReachIM(ab[1], ab[2]))

\* v * Math.sqrt(-2.0*Math.log(rsq)/rsq) for v = 2.0*un - 1.0, w = 2.0*other - 1.0
\* and rsq = v*v + w*w
Polar(un, other) ==
  IF IsNaN(un) \/ IsNaN(other) THEN NaN ELSE [polar |-> un, with |-> other]

\* mean + scale * z
Affine(mean, scale, z) ==
  IF z = NaN THEN NaN ELSE [mean |-> mean, scale |-> scale, z |-> z]

\* the rejection loop of normal: two deviates a pass
RECURSIVE NormalLoop(_, _, _, _)
NormalLoop(g, d, start, init) ==
  Bind(Uniform(g, start, init),
       LAMBDA d1 :
         Bind(Uniform(d1.g, start, init),
              LAMBDA d2 :
                IF ~Rejected(d1.val, d2.val)
                THEN Outcome(d2.g,
                             [d EXCEPT !.normVal = Polar(d1.val, d2.val)],
                             Return(Affine(d.u, d.s, Polar(d2.val, d1.val))))
                ELSE IF init \/ d2.g = g THEN Outcome(d2.g, d, NoReturn)
                ELSE NormalLoop(d2.g, d, start, init)))

\* a second branch that leaves the spare value in place
NormalSpareKept(g, d) == Outcome(g, d, Return(Affine(d.u, d.s, d.normVal)))

\* fac = this._normVal; this._normVal = 0.0; return this._u + this._s*fac
NormalSpare(g, d) ==
  Outcome(g, [d EXCEPT !.normVal = R(0)], Return(Affine(d.u, d.s, d.normVal)))

\* normal(start, mu, sig, init)
Deviates_normal(g, d, start, mu, sig, init) ==
  Bind(Located(d, mu, sig, init),
       LAMBDA dl : IF dl.normVal = R(0) THEN NormalLoop(g, dl, start, init)
                   ELSE NormalSpare(g, dl))

\* if (start): a number other than 0 and NaN
Truthy(v) == IsNum(v) /\ v.n # 0

\* 1.0 / r
Recip(r) == IF IsNum(r) THEN Div(R(1), r) ELSE [recipOf |-> r]

\* if (start) { this._a = ...; this._b = ...; this._a1 = ...; this._a2 = ...; }
Shaped(d, start, alpha, beta) ==
  IF ~Truthy(start) THEN d
  ELSE LET a0 == IF IsNaN(alpha) \/ ~Lt(R(0), alpha) THEN R(1) ELSE alpha
           a  == IF Lt(a0, R(1)) THEN Add(a0, R(1)) ELSE a0
           b  == IF IsNaN(beta) \/ Lt(beta, Q(1, 10000)) THEN Q(1, 2) ELSE beta
           a1 == Sub(a, Q(1, 3))
       IN  [d EXCEPT !.a = a, !.b = b, !.a1 = a1,
                     !.a2 = Recip(Sqrt(Mul(R(9), a1)))]

\* this._a1*v/this._b after k passes: v is (1.0 + this._a2*x) cubed k times
GammaValue(d, x, k) ==
  IF IsNaN(x) THEN NaN
  ELSE IF x = R(0) THEN Div(d.a1, d.b)
  ELSE [a1 |-> d.a1, a2 |-> d.a2, b |-> d.b, x |-> x, passes |-> k]

\* u > 1.0 - xSQ*xSQ && Math.log(u) > 0.5*xSQ + this._a1*(1.0 - v + Math.log(v))
\* after a pass: false for NaN and for u = 0 (x < 1); the model does not
\* compute it for other values, and lets the loop stop or go on
MayRepeat(un, x) == ~IsNaN(un) /\ ~IsNaN(x) /\ un # R(0)

\* the outcomes of the loop of gamma from the end of its k-th pass: x is the
\* deviate drawn by the inner loop in the first pass (v > 0 from then on), un
\* the last one drawn
RECURSIVE GammaPasses(_, _, _, _, _, _, _)
GammaPasses(g, d, start, init, x, un, k) ==
  {Outcome(g, d, Return(GammaValue(d, x, k)))}
    \cup IF MayRepeat(un, x) /\ k < MaxGammaPasses
         THEN Bind(Uniform(g, start, init),
                   LAMBDA nx : GammaPasses(nx.g, d, start, init, x, nx.val, k + 1))
         ELSE {}

\* gamma(start, alpha, beta, init): its possible outcomes. The loop is entered
\* when this._a1*(1.0 - 0.0 + Math.log(0.0)) is -Infinity
Deviates_gamma(g, d0, start, alpha, beta, init) ==
  Bind(Shaped(d0, start, alpha, beta),
       LAMBDA d :
         IF ~Lt(R(0), d.a1)
         THEN {Outcome(g, d, Return(Div(Mul(d.a1, R(0)), d.b)))}
         ELSE Bind(Uniform(g, start, init),
                   LAMBDA dx :
                     Bind(Uniform(dx.g, start, init),
                          LAMBDA du : GammaPasses(du.g, d, start, init,
                                                  dx.val, du.val, 1))))

\* 0.551328895421792050 * Math.log(v/(1.0-v))
Logit(v) == IF IsNaN(v) THEN NaN ELSE [logitOf |-> v]

\* while (v*(1.0-v) == 0.0) v = this.uniform(start, init)
RECURSIVE LogisticLoop(_, _, _, _)
LogisticLoop(g, d, start, init) ==
  Bind(Uniform(g, start, init),
       LAMBDA un :
         IF un.val # R(0) /\ un.val # R(1)
         THEN Outcome(un.g, d, Return(Affine(d.u, d.s, Logit(un.val))))
         ELSE IF init \/ un.g = g THEN Outcome(un.g, d, NoReturn)
         ELSE LogisticLoop(un.g, d, start, init))

\* logistic(start, mu, sig, init)
Deviates_logistic(g, d, start, mu, sig, init) ==
  Bind(Located(d, mu, sig, init), LAMBDA dl : LogisticLoop(g, dl, start, init))

\* the seeds the callers pass
Seeds == {R(1), R(2), R(1001), R(IM - 1), R(IM), R(0), R(-3), NaN}

(***************************************************************************)
(* TSMT$Bagging                                                            *)
(***************************************************************************)
\* Math.round(v) of a finite number: floor(v + 1/2)
Round(v) == (2 * v.n + v.d) \div (2 * v.d)

\* the number of passes of a loop "for (i = 0; i < v; ++i)", and the length at
\* which "while (a.length < v)" stops: the least integer >= v, 0 for NaN
Passes(v) ==
  IF IsNaN(v) \/ v.n <= 0 THEN 0 ELSE (v.n + v.d - 1) \div v.d

Falsy(v) == v = Undefined \/ v = Null

\* the seed of the resampler's generator
BagSeed == 1001

\* data[index]; -1 stands for the index NaN, and a missing element is undefined
Elem(data, index) ==
  IF index + 1 \in DOMAIN data THEN data[index + 1] ELSE Undefined

\* an index computed as Math.round(r * n), which reaches n
SampleIndexToN(r, n) ==
  IF IsNaN(r) THEN -1
  ELSE (MulDivFloor(r.n, 1000 * n, r.d) + 500) \div 1000

\* index = Math.abs(Math.floor(Math.round(min + r*(max - min)))) with
\* min = -0.499 and max = n - 1 + 0.499, for a deviate r = p/q in [0, 1):
\* floor(r*(n - 0.002) + 0.001) = floor((floor(p*(1000n - 2)/q) + 1) / 1000)
SampleIndex(r, n) ==
  IF IsNaN(r) THEN -1
  ELSE (MulDivFloor(r.n, 1000 * n - 2, r.d) + 1) \div 1000

\* numSets as get1DSamplesWithReplacement defaults it (no NaN test)
NumSetsNoNaNTest(numSets, n) ==
  IF Falsy(numSets) \/ Lt(numSets, R(1)) THEN R(n)
  ELSE IF IsNaN(numSets) THEN NaN ELSE R(Round(numSets))

\* numSets as the other operations default it
NumSets(numSets, n) ==
  IF Falsy(numSets) \/ IsNaN(numSets) \/ Lt(numSets, R(1)) THEN R(n)
  ELSE R(Round(numSets))

\* the sample size m of get1DSamplesWithoutReplacement and subbagFit
SampleSizeRounded(m, n) ==
  IF m = Undefined \/ IsNaN(m) \/ Lt(m, R(1)) \/ Lt(R(n), m) THEN R(n \div 2)
  ELSE R(Round(m))

\* the sample size m of get2DSamplesWithoutReplacement (no NaN test, no rounding)
SampleSizeAsGiven(m, n) ==
  IF Falsy(m) \/ Lt(m, R(1)) \/ Lt(R(n), m) THEN R(n \div 2) ELSE m

\* the inner loop of the with-replacement operations: k more draws
RECURSIVE DrawWith(_, _, _, _)
DrawWith(g, n, k, acc) ==
  IF k = 0 THEN [g |-> g, idx |-> acc]
  ELSE Bind(Uniform(g, R(BagSeed), FALSE),
            LAMBDA u : DrawWith(u.g, n, k - 1, Append(acc, SampleIndex(u.val, n))))

\* an index sampled twice in one set: the collision test that is always true
AlwaysUnsampled(sampled, index) == TRUE

\* sampledIndices[index] == undefined
Unsampled(sampled, index) == index \notin sampled

\* one pass of the inner loop of the without-replacement operations
DrawOne(st, n) ==
  Bind(Uniform(st.g, R(BagSeed), FALSE),
       LAMBDA u :
         Bind(SampleIndex(u.val, n),
              LAMBDA index :
                IF Unsampled(st.sampled, index)
                THEN [g |-> u.g, idx |-> Append(st.idx, index),
                      sampled |-> st.sampled \cup {index}]
                ELSE [g |-> u.g, idx |-> st.idx, sampled |-> st.sampled]))

\* the inner loop of the without-replacement operations: draws until the set
\* holds len elements
RECURSIVE DrawWithout(_, _, _)
DrawWithout(st, n, len) ==
  IF Len(st.idx) >= len THEN [g |-> st.g, idx |-> st.idx]
  ELSE Bind(DrawOne(st, n), LAMBDA nx : DrawWithout(nx, n, len))

\* the outer loop: sets more output sets; len < 0 selects the with-replacement
\* inner loop (n draws), otherwise sampledIndices is emptied and len elements
\* are drawn without replacement
RECURSIVE DrawSets(_, _, _, _, _)
DrawSets(g, n, sets, len, acc) ==
  IF sets = 0 THEN [g |-> g, idx |-> acc]
  ELSE Bind(IF len < 0 THEN DrawWith(g, n, n, <<>>)
            ELSE DrawWithout([g |-> g, idx |-> <<>>, sampled |-> {}], n, len),
            LAMBDA d : DrawSets(d.g, n, sets - 1, len, Append(acc, d.idx)))

\* a start that seeds only a generator that was never used
ReseededOnce(g) ==
  IF g = NewDeviates THEN Uniform(g, R(BagSeed), TRUE).g ELSE g

\* the start of every sampling operation: r = __deviates.uniform(1001, true)
Reseeded(g) == Uniform(g, R(BagSeed), TRUE).g

Values(data, idx) == [k \in 1..Len(idx) |-> Elem(data, idx[k])]

Values1D(data, sets) == [i \in 1..Len(sets) |-> Values(data, sets[i])]

Values2D(x, y, sets) ==
  [i \in 1..Len(sets) |-> [x |-> Values(x, sets[i]), y |-> Values(y, sets[i])]]

\* what a sampling operation leaves: the generator, the value returned and the
\* indices drawn
Sampled(g, val, idx) == [g |-> g, val |-> val, idx |-> idx]

get1DSamplesWithReplacement(g, data, numSets) ==
  IF Falsy(data) \/ Len(data.arr) = 0 THEN Sampled(g, <<>>, <<>>)
  ELSE LET n == Len(data.arr)
       IN  Bind(DrawSets(Reseeded(g), n, Passes(NumSetsNoNaNTest(numSets, n)), -1, <<>>),
                LAMBDA d : Sampled(d.g, Values1D(data.arr, d.idx), d.idx))

get1DSamplesWithoutReplacement(g, data, m, numSets) ==
  IF Falsy(data) \/ Len(data.arr) = 0 THEN Sampled(g, <<>>, <<>>)
  ELSE LET n == Len(data.arr)
       IN  Bind(DrawSets(Reseeded(g), n, Passes(NumSets(numSets, n)),
                         Passes(SampleSizeRounded(m, n)), <<>>),
                LAMBDA d : Sampled(d.g, Values1D(data.arr, d.idx), d.idx))

get2DSamplesWithReplacement(g, x, y, numSets) ==
  IF Falsy(x) \/ Falsy(y) \/ Len(x.arr) = 0 THEN Sampled(g, <<>>, <<>>)
  ELSE IF Len(y.arr) # Len(x.arr) THEN Sampled(g, <<>>, <<>>)
  ELSE LET n == Len(x.arr)
       IN  Bind(DrawSets(Reseeded(g), n, Passes(NumSets(numSets, n)), -1, <<>>),
                LAMBDA d : Sampled(d.g, Values2D(x.arr, y.arr, d.idx), d.idx))

get2DSamplesWithoutReplacement(g, x, y, m, numSets) ==
  IF Falsy(x) \/ Falsy(y) \/ Len(x.arr) = 0 THEN Sampled(g, <<>>, <<>>)
  ELSE IF Len(y.arr) # Len(x.arr) THEN Sampled(g, <<>>, <<>>)
  ELSE LET n == Len(x.arr)
       IN  Bind(DrawSets(Reseeded(g), n, Passes(NumSets(numSets, n)),
                         Passes(SampleSizeAsGiven(m, n)), <<>>),
                LAMBDA d : Sampled(d.g, Values2D(x.arr, y.arr, d.idx), d.idx))

(***************************************************************************)
(* TSMT$LLSQ                                                               *)
(***************************************************************************)
\* s[1] + ... + s[k], added from the left to 0.0 as the loops do
RECURSIVE SumTo(_, _)
SumTo(s, k) ==
  IF k = 0 THEN R(0) ELSE Bind(SumTo(s, k - 1), LAMBDA acc : Add(acc, s[k]))

Sum(s) == SumTo(s, Len(s))

Sq(t) == Mul(t, t)

\* the result for fewer than three points or arrays of unequal length
ZeroFit ==
  [a |-> R(0), b |-> R(0), siga |-> R(0), sigb |-> R(0), chi2 |-> R(0), r |-> R(0)]

\* the first loop: sx and sy, and the means taken from them
Means(x, y) ==
  Bind([sx |-> Sum(x), sy |-> Sum(y)],
       LAMBDA s : [sx |-> s.sx, sy |-> s.sy,
                   sxoss |-> Div(s.sx, R(Len(x))), ybar |-> Div(s.sy, R(Len(x)))])

\* the second loop: st2, and b before it is divided by st2
Slopes(x, y, sxoss) ==
  [st2 |-> Sum([i \in 1..Len(x) |-> Sq(Sub(x[i], sxoss))]),
   b   |-> Sum([i \in 1..Len(x) |-> Mul(Sub(x[i], sxoss), y[i])])]

\* the third loop: chi2 and s
Residuals(x, y, a, b, ybar) ==
  [chi2 |-> Sum([i \in 1..Len(x) |-> Sq(Sub(Sub(y[i], a), Mul(b, x[i])))]),
   s    |-> Sum([i \in 1..Len(x) |-> Sq(Sub(y[i], ybar))])]

\* the object returned: the slope b is reported as a and the intercept a as b;
\* siga and sigb are Math.sqrt(...) * sigdat with sigdat = Math.sqrt(chi2/(n-2))
FitResult(n, m, t, a, b, e) ==
  [a    |-> b,
   b    |-> a,
   siga |-> SqrtMul(Div(Add(R(1), Div(Mul(m.sx, m.sx), Mul(R(n), t.st2))), R(n)),
                    Div(e.chi2, R(n - 2))),
   sigb |-> SqrtMul(Div(R(1), t.st2), Div(e.chi2, R(n - 2))),
   chi2 |-> e.chi2,
   r    |-> Sub(R(1), Div(e.chi2, e.s))]

\* the fit of n >= 3 points (x and y sequences of the same length)
LLSQFit(x, y) ==
  Bind(Means(x, y), LAMBDA m :
    Bind(Slopes(x, y, m.sxoss), LAMBDA t :
      Bind(Div(t.b, t.st2), LAMBDA b :
        Bind(Div(Sub(m.sy, Mul(m.sx, b)), R(Len(x))), LAMBDA a :
          Bind(Residuals(x, y, a, b, m.ybar), LAMBDA e :
            FitResult(Len(x), m, t, a, b, e))))))

\* a returned reference to a new object
Returned(al) == [heap |-> al.heap, ret |-> Return(al.ref)]

\* one result object shared by all degenerate returns
SharedDegenerateFit(h) ==
  IF \E k \in DOMAIN h : DOMAIN h[k] = DOMAIN ZeroFit
  THEN [heap |-> h,
        ret  |-> Return(Ref(CHOOSE k \in DOMAIN h : DOMAIN h[k] = DOMAIN ZeroFit))]
  ELSE Bind(Alloc(h, ZeroFit), LAMBDA al : Returned(al))

\* return {a: 0, b: 0, siga: 0, sigb: 0, chi2: 0, r: 0}
DegenerateFit(h) == Bind(Alloc(h, ZeroFit), LAMBDA al : Returned(al))

\* TSMT$LLSQ.fit(_x, _y): reading .length of null or undefined throws
LLSQ_fit(h, x, y) ==
  IF ~IsArray(x) THEN [heap |-> h, ret |-> Throw(TypeError)]
  ELSE IF Len(x.arr) < 3 THEN DegenerateFit(h)
  ELSE IF ~IsArray(y) THEN [heap |-> h, ret |-> Throw(TypeError)]
  ELSE IF Len(y.arr) # Len(x.arr) THEN DegenerateFit(h)
  ELSE Bind(Alloc(h, LLSQFit(x.arr, y.arr)), LAMBDA al : Returned(al))

(***************************************************************************)
(* TSMT$Matrix, the solver TSMT$Pllsq uses                                 *)
(***************************************************************************)
\* row 1 and column j removed
Minor(M, j) ==
  [r \in 1..(Len(M) - 1) |->
     [c \in 1..(Len(M) - 1) |-> M[r + 1][IF c < j THEN c ELSE c + 1]]]

RECURSIVE Det(_)
Det(M) ==
  IF Len(M) = 1 THEN M[1][1]
  ELSE Sum([j \in 1..Len(M) |->
              Mul(IF j % 2 = 1 THEN M[1][j] ELSE Neg(M[1][j]), Det(Minor(M, j)))])

ReplaceCol(M, j, b) ==
  [r \in 1..Len(M) |-> [c \in 1..Len(M) |-> IF c = j THEN b[r] ELSE M[r][c]]]

SolverError == [error |-> "singular"]

\* fromArray(a) and solve(b): the solution of a c = b, or a failure when a is
\* singular
Solve(a, b) ==
  Bind(Det(a), LAMBDA d :
    IF d = R(0) \/ ~IsFinite(d) THEN Throw(SolverError)
    ELSE Return([i \in 1..Len(a) |-> Div(Det(ReplaceCol(a, i, b)), d)]))

(***************************************************************************)
(* TSMT$Pllsq                                                              *)
(***************************************************************************)
\* the heap and the instance after the constructor: _c = new Array(), _n = 0
NewHeap == <<Arr(<<>>)>>

NewPllsq == [c |-> Ref(1), n |-> 0]

\* m = isNaN(m) || m < 1 ? 1 : Math.round(m) + 1
CoefCount(m) == IF IsNaN(m) \/ Lt(m, R(1)) THEN 1 ELSE Round(m) + 1

\* tmp[k]: tmp[1] = xj and tmp[i] = tmp[i-1] * xj
RECURSIVE Pow(_, _)
Pow(xj, k) == IF k = 1 THEN xj ELSE Bind(Pow(xj, k - 1), LAMBDA t : Mul(t, xj))

\* asums[k]: asums[0] = n, the others the sums of tmp[k]
ASum(x, k) ==
  IF k = 0 THEN R(Len(x)) ELSE Sum([j \in 1..Len(x) |-> Pow(x[j], k)])

\* b[i]: b[0] is the sum of the yj, the others the sums of tmp[i] * yj
BSum(x, y, i) ==
  IF i = 0 THEN Sum([j \in 1..Len(x) |-> Elem(y, j - 1)])
  ELSE Sum([j \in 1..Len(x) |-> Mul(Pow(x[j], i), Elem(y, j - 1))])

\* row i of the matrix is asums[i .. i + m - 1]
Normal(x, m) == [i \in 1..m |-> [j \in 1..m |-> ASum(x, i + j - 2)]]

Rhs(x, y, m) == [i \in 1..m |-> BSum(x, y, i - 1)]

\* a loop that stops before i = 0 and leaves c[0] out
RECURSIVE HornerAboveZero(_, _, _, _)
HornerAboveZero(c, xv, k, val) ==
  IF k <= 1 THEN val
  ELSE Bind(Add(Mul(xv, val), c[k]), LAMBDA v : HornerAboveZero(c, xv, k - 1, v))

\* val = x * val + c[i] for i from k - 1 down to 0 (c[i] is the model's c[i+1])
RECURSIVE Horner(_, _, _, _)
Horner(c, xv, k, val) ==
  IF k = 0 THEN val
  ELSE Bind(Add(Mul(xv, val), c[k]), LAMBDA v : Horner(c, xv, k - 1, v))

\* eval(x) on the coefficients c
EvalPoly(c, xv) ==
  IF Len(c) = 0 THEN R(0) ELSE Horner(c, xv, Len(c) - 1, c[Len(c)])

\* TSMT$Pllsq.eval(x)
Pllsq_eval(h, p, xv) == EvalPoly(h[p.c.ref].arr, xv)

\* Math.sqrt(s / n), s the sum of the squared errors
Rms(c, x, y) ==
  Sqrt(Div(Sum([i \in 1..Len(x) |-> Sq(Sub(EvalPoly(c, x[i]), Elem(y, i - 1)))]),
           R(Len(x))))

\* const empty = {coef: [], r: 0, rms: 0}
EmptyPoly(h) ==
  Bind(Alloc(h, Arr(<<>>)), LAMBDA c :
    Alloc(c.heap, [coef |-> c.ref, r |-> R(0), rms |-> R(0)]))

\* a fit that answers a failure of the solver with coefficients 0
SolvedOrZero(h, p, x, y, m) ==
  Bind(Alloc(h, Arr([i \in 1..m |-> R(0)])), LAMBDA c :
    Bind(Alloc(c.heap, [coef |-> c.ref, rms |-> R(0)]),
         LAMBDA res : [heap |-> res.heap, pl |-> [c |-> c.ref, n |-> m],
                       ret |-> Return(res.ref)]))

\* a fit that stores the order before it calls the solver
SolvedOrderFirst(h, p, x, y, m) ==
  Bind(Solve(Normal(x, m), Rhs(x, y, m)), LAMBDA sol :
    IF sol.threw THEN [heap |-> h, pl |-> [c |-> p.c, n |-> m], ret |-> sol]
    ELSE Bind(Alloc(h, Arr(sol.val)), LAMBDA c :
           Bind(Alloc(c.heap, [coef |-> c.ref, rms |-> Rms(sol.val, x, y)]),
                LAMBDA res : [heap |-> res.heap, pl |-> [c |-> c.ref, n |-> m],
                              ret |-> Return(res.ref)])))

\* the part of fit after the tests: the system is solved, the solution becomes
\* _c and is the coef of the result
Solved(h, p, x, y, m) ==
  Bind(Solve(Normal(x, m), Rhs(x, y, m)), LAMBDA sol :
    IF sol.threw THEN [heap |-> h, pl |-> p, ret |-> sol]
    ELSE Bind(Alloc(h, Arr(sol.val)), LAMBDA c :
           Bind(Alloc(c.heap, [coef |-> c.ref, rms |-> Rms(sol.val, x, y)]),
                LAMBDA res : [heap |-> res.heap, pl |-> [c |-> c.ref, n |-> m],
                              ret |-> Return(res.ref)])))

\* TSMT$Pllsq.fit(x, y, m) on the instance p
Pllsq_fit(h, p, x, y, m) ==
  Bind(EmptyPoly(h), LAMBDA empty :
    IF Falsy(x) \/ Falsy(y)
    THEN [heap |-> empty.heap, pl |-> p, ret |-> Return(empty.ref)]
    ELSE IF Len(x.arr) <= CoefCount(m)
    THEN [heap |-> empty.heap, pl |-> p, ret |-> Return(empty.ref)]
    ELSE Solved(empty.heap, p, x.arr, y.arr, CoefCount(m)))

(***************************************************************************)
(* TSMT$Bllsq                                                              *)
(***************************************************************************)
\* const empty = {a: 0, b: 0, fits: []}
EmptyBag(h) ==
  Bind(Alloc(h, Arr(<<>>)), LAMBDA f :
    Alloc(f.heap, [a |-> R(0), b |-> R(0), fits |-> f.ref]))

\* every pass fitting the first bag
BagFirst(bag, i) == Elem(bag, 0)

\* bag[i]
BagAt(bag, i) == Elem(bag, i)

\* one pass of the loop over the bags: st is [heap, a, b, fits, threw]
FitBag(st, bag, i) ==
  Bind(BagAt(bag, i), LAMBDA s :
    IF s = Undefined THEN [st EXCEPT !.threw = TRUE]
    ELSE Bind(LLSQ_fit(st.heap, Arr(s.x), Arr(s.y)), LAMBDA f :
           [heap  |-> f.heap,
            a     |-> Add(st.a, f.heap[f.ret.val.ref].a),
            b     |-> Add(st.b, f.heap[f.ret.val.ref].b),
            fits  |-> Append(st.fits, f.ret.val),
            threw |-> FALSE]))

\* for (i = 0; i < numSets; ++i), from pass i on
RECURSIVE FitBags(_, _, _, _)
FitBags(st, bag, i, numSets) ==
  IF i >= numSets \/ st.threw THEN st
  ELSE Bind(FitBag(st, bag, i), LAMBDA nx : FitBags(nx, bag, i + 1, numSets))

\* the part the two operations share: fitArray is a new array, every bag is
\* fitted, and the sums are divided by numSets
Bagged(h, sampled, numSets) ==
  Bind(Alloc(h, Arr(<<>>)), LAMBDA fa :
    Bind(FitBags([heap |-> fa.heap, a |-> R(0), b |-> R(0), fits |-> <<>>,
                  threw |-> FALSE], sampled.val, 0, Passes(numSets)),
         LAMBDA st :
           IF st.threw
           THEN [heap |-> st.heap, g |-> sampled.g, idx |-> sampled.idx,
                 ret |-> Throw(TypeError)]
           ELSE Bind(Alloc([st.heap EXCEPT ![fa.ref.ref] = Arr(st.fits)],
                           [a |-> Div(st.a, numSets), b |-> Div(st.b, numSets),
                            fits |-> fa.ref]),
                     LAMBDA res : [heap |-> res.heap, g |-> sampled.g,
                                   idx |-> sampled.idx, ret |-> Return(res.ref)])))

\* TSMT$Bllsq.bagFit(x, y, numSets); g is the resampler's generator
bagFit(h, g, x, y, numSets) ==
  Bind(EmptyBag(h), LAMBDA empty :
    IF Falsy(x) \/ Falsy(y) \/ Len(x.arr) < 3
    THEN [heap |-> empty.heap, g |-> g, idx |-> <<>>, ret |-> Return(empty.ref)]
    ELSE Bind(NumSets(numSets, Len(x.arr)), LAMBDA sets :
           Bind(get2DSamplesWithReplacement(g, x, y, sets), LAMBDA sampled :
             Bagged(empty.heap, sampled, sets))))

\* TSMT$Bllsq.subbagFit(x, y, m, numSets)
subbagFit(h, g, x, y, m, numSets) ==
  Bind(EmptyBag(h), LAMBDA empty :
    IF Falsy(x) \/ Falsy(y) \/ Len(x.arr) < 3
    THEN [heap |-> empty.heap, g |-> g, idx |-> <<>>, ret |-> Return(empty.ref)]
    ELSE Bind(NumSets(numSets, Len(x.arr)), LAMBDA sets :
           Bind(get2DSamplesWithoutReplacement(
                  g, x, y, SampleSizeRounded(m, Len(x.arr)), sets),
                LAMBDA sampled : Bagged(empty.heap, sampled, sets))))

(***************************************************************************)
(* AppComponent and DlModel: the component's data, its fit handler and the *)
(* training it starts                                                      *)
(***************************************************************************)
\* horizontal and vertical buffer space (in px)
BUFFER == 5

\* the component after its constructor and ngOnInit. _dlVars is the sequence
\* of optimizer steps applied to the initial parameters, each step the sample
\* <<xtrain[i], ytrain[i]>> it read; numIterations, n, iter and i are the
\* arguments and locals of DlModel.train and "at" its position; frames counts
\* the suspensions, completed the calls of __onTrainingComplete; handler is
\* the handler that has statements left to run; moveTo is the first point of
\* the curve a fit drew.
NewApp ==
  [_x |-> Undefined, _y |-> Undefined,
   _trainX |-> Arr(<<>>), _trainY |-> Arr(<<>>),
   _dlVars |-> <<>>, dlCoefs |-> Undefined,
   status |-> "DeepLearn training in progress ...",
   moveTo |-> Undefined,
   numIterations |-> 0, n |-> 0, iter |-> 0, i |-> 0, at |-> "constructed",
   handler |-> "none", frames |-> 0, completed |-> 0]

\* the least and the greatest element of a non-empty array of numbers
MinOf(arr) == CHOOSE v \in {arr[k] : k \in DOMAIN arr} :
                \A k \in DOMAIN arr : ~Lt(arr[k], v)

MaxOf(arr) == CHOOSE v \in {arr[k] : k \in DOMAIN arr} :
                \A k \in DOMAIN arr : ~Lt(v, arr[k])

\* __transform(arr, coord) on a surface of the given width or height
Transform(arr, coord, size) ==
  Bind(MinOf(arr), LAMBDA min :
    Bind(Div(R(IF coord = "x" THEN size - 2 * BUFFER ELSE 2 * BUFFER - size),
             Sub(MaxOf(arr), min)),
         LAMBDA m :
           [k \in DOMAIN arr |->
              Bind(Sub(arr[k], min), LAMBDA dx :
                Bind(Mul(m, dx), LAMBDA md :
                  Bind(Add(md, R(IF coord = "x" THEN BUFFER ELSE size - BUFFER)),
                       LAMBDA t : R(Round(t)))))]))

\* a loop test that lets one more epoch run
EpochsLeftOrLast(a) == a.iter <= a.numIterations

\* the loop test of DlModel.train: iter < numIterations
EpochsLeft(a) == a.iter < a.numIterations

\* for (...; iter < numIterations; ...): into the next epoch or out of the loop
LoopTest(a) ==
  IF EpochsLeft(a) THEN [a EXCEPT !.at = "epoch", !.i = 0]
  ELSE [a EXCEPT !.at = "exit"]

\* DlModel.train(xtrain, ytrain, optimizer, params, numIterations, done) up
\* to its first loop test
Train(a, numIterations) ==
  LoopTest([a EXCEPT !.numIterations = numIterations,
                     !.n = Len(a._trainX.arr), !.iter = 0])

\* ngAfterViewInit up to its call of DlModel.train, on a surface and with the
\* points d = <<x, y>>
ViewInit(a, surface, d, numIterations) ==
  Train([a EXCEPT !._trainX = Arr(d[1]), !._trainY = Arr(d[2]),
                  !._x = Arr(Transform(d[1], "x", surface.width)),
                  !._y = Arr(Transform(d[2], "y", surface.height)),
                  !.handler = "ngAfterViewInit"],
        numIterations)

\* optimizer.minimize(() => loss(predictor(xtrain[i], params), ytrain[i]))
\* and i++
Minimize(a) ==
  [a EXCEPT !._dlVars = Append(@, <<a._trainX.arr[a.i + 1], a._trainY.arr[a.i + 1]>>),
            !.i = @ + 1]

\* await dl.nextFrame()
Suspended(a) == [a EXCEPT !.at = "awaiting", !.frames = @ + 1]

\* the frame has come: iter++ and the loop test
Resumed(a) == LoopTest([a EXCEPT !.iter = @ + 1])

\* done(), which is __onTrainingComplete()
TrainingComplete(a) ==
  [a EXCEPT !.dlCoefs = Arr(a._dlVars), !.status = "DL training complete.",
            !.completed = @ + 1, !.at = "returned"]

\* the training set
TrainingSet(a) == <<a._trainX, a._trainY>>

\* the data a fit reads: this._x and this._y
Plotted(a) == <<a._x, a._y>>

\* the library call fit(type) makes on the data d
FitCall(type, d) ==
  CASE type = "LLSQ" -> [op |-> "LLSQ.fit", x |-> d[1], y |-> d[2]]
    [] type = "LLSQ_BAG" ->
         [op |-> "bagFit", x |-> d[1], y |-> d[2], numSets |-> R(6)]
    [] type = "LLSQ_SUB_BAG" ->
         [op |-> "subbagFit", x |-> d[1], y |-> d[2], m |-> R(20), numSets |-> R(6)]
    [] type = "QUAD_LSQ" -> [op |-> "Pllsq.fit", x |-> d[1], y |-> d[2], m |-> R(2)]
    [] type = "CUBIC_LSQ" -> [op |-> "Pllsq.fit", x |-> d[1], y |-> d[2], m |-> R(3)]
    [] type = "QUARTIC_LSQ" -> [op |-> "Pllsq.fit", x |-> d[1], y |-> d[2], m |-> R(4)]

(***************************************************************************)
(* Specification Spec: a caller of one TSMT$Deviates instance              *)
(***************************************************************************)
NoCall == [op |-> "none"]

NoRet == [threw |-> FALSE, val |-> Undefined]

\* no call that re-initialises has been made
NoLast == [loc |-> NoCall, gam |-> NoCall]

Idle ==
  /\ app = NewApp
  /\ deviates = NewDeviates
  /\ call = NoCall
  /\ ret = NoRet
  /\ picked = <<>>
  /\ heap = NewHeap
  /\ pl = NewPllsq
  /\ prev = NoRet
  /\ fitted = Undefined
  /\ dist = NewDist
  /\ last = NoLast
  /\ pc = "ready"

Init ==
  /\ dev = NewDeviates
  /\ out = <<>>
  /\ lastSeed = Undefined
  /\ ncalls = 0
  /\ Idle

\* uniform(s, true)
UniformReseed ==
  \E s \in Seeds :
    LET u == Uniform(dev, s, TRUE)
    IN  /\ ncalls < MaxCalls
        /\ dev' = u.g
        /\ out' = <<u.val>>
        /\ lastSeed' = s
        /\ ncalls' = ncalls + 1
        /\ UNCHANGED <<app, last, dist, fitted, deviates, call, ret, picked, heap, pl, prev, pc>>

\* uniform(s, false)
UniformContinue ==
  \E s \in Seeds :
    LET u == Uniform(dev, s, FALSE)
    IN  /\ ncalls < MaxCalls
        /\ dev' = u.g
        /\ out' = Append(out, u.val)
        /\ ncalls' = ncalls + 1
        /\ UNCHANGED <<app, last, dist, fitted, lastSeed, deviates, call, ret, picked, heap, pl, prev, pc>>

Next == UniformReseed \/ UniformContinue

Spec == Init /\ [][Next]_vars

\* the values uniform(s, true) and k - 1 calls uniform(s, false) return on a
\* fresh instance
RECURSIVE FreshRun(_, _, _, _)
FreshRun(g, s, k, acc) ==
  IF Len(acc) >= k THEN acc
  ELSE Bind(Uniform(g, s, acc = <<>>),
            LAMBDA u : FreshRun(u.g, s, k, Append(acc, u.val)))

InOpenUnit(v) == Lt(R(0), v) /\ Lt(v, R(1))

\* C1: for every seed s >= 1, uniform(s, true) and every following
\* uniform(s, false) return a value strictly between 0 and 1.
C1_UniformInOpenUnit ==
  (lastSeed # Undefined /\ ~Lt(lastSeed, R(1)) /\ ~IsNaN(lastSeed))
    => \A i \in 1..Len(out) : InOpenUnit(out[i])

\* C2: whatever calls came before, uniform(s, true) followed by k calls
\* uniform(s, false) returns the k+1 values the same calls return on a fresh
\* instance.
C2_ReseedRestartsSequence ==
  lastSeed # Undefined => out = FreshRun(NewDeviates, lastSeed, Len(out), <<>>)

\* a re-seed with 1001 after calls with other seeds, followed by continuations
C2_Witness ==
  /\ lastSeed = R(1001)
  /\ Len(out) >= 3
  /\ ncalls >= Len(out) + 2

(***************************************************************************)
(* Specification SpecBag: callers of the four sampling operations, which   *)
(* share the static generator                                              *)
(***************************************************************************)
DataOf(n) == [i \in 1..n |-> R(10 * i)]

OtherOf(n) == [i \in 1..n |-> R(i * i)]

\* the arguments the callers pass, as lists (an argument is an array, a number,
\* null or undefined)
Data1D ==
  [k \in 1..(MaxN + 1) |-> Arr(DataOf(k - 1))]
    \o <<Arr([i \in 1..MaxN |-> R(5)]), Null>>

Pairs2D ==
  [k \in 1..(MaxN + 1) |-> <<Arr(DataOf(k - 1)), Arr(OtherOf(k - 1))>>]
    \o << <<Arr(DataOf(MaxN)), Arr(OtherOf(MaxN - 1))>>,
           <<Null, Arr(OtherOf(1))>>,
           <<Arr(DataOf(1)), Null>> >>

NumSetsArgs == [k \in 1..MaxSets |-> R(k)] \o <<Undefined, Null, NaN, R(0)>>

SizeArgs == [k \in 1..MaxN |-> R(k)] \o <<Undefined, NaN, R(0), R(MaxN + 1)>>

\* states the static generator can be in when a sampling operation is called:
\* never used, or left behind by an earlier sampling call
PriorDeviates ==
  {NewDeviates,
   get1DSamplesWithReplacement(NewDeviates, Arr(DataOf(2)), R(1)).g,
   get2DSamplesWithoutReplacement(NewDeviates, Arr(DataOf(3)), Arr(OtherOf(3)),
                                  R(2), R(2)).g}

InitBag ==
  /\ dev = NewDeviates
  /\ out = <<>>
  /\ lastSeed = Undefined
  /\ ncalls = 0
  /\ deviates \in PriorDeviates
  /\ call = NoCall
  /\ ret = NoRet
  /\ picked = <<>>
  /\ heap = NewHeap
  /\ pl = NewPllsq
  /\ prev = NoRet
  /\ fitted = Undefined
  /\ dist = NewDist
  /\ last = NoLast
  /\ pc = "ready"
  /\ app = NewApp

Call1DWith ==
  \E di \in DOMAIN Data1D, ni \in DOMAIN NumSetsArgs :
    LET data    == Data1D[di]
        numSets == NumSetsArgs[ni]
        r       == get1DSamplesWithReplacement(deviates, data, numSets)
    IN  /\ pc = "ready"
        /\ call' = [op |-> "get1DSamplesWithReplacement", data |-> data,
                    numSets |-> numSets]
        /\ deviates' = r.g
        /\ ret' = Return(r.val)
        /\ picked' = r.idx
        /\ pc' = "returned"
        /\ UNCHANGED <<app, last, dist, fitted, dev, out, lastSeed, ncalls, heap, pl, prev>>

Call1DWithout ==
  \E di \in DOMAIN Data1D, mi \in DOMAIN SizeArgs, ni \in DOMAIN NumSetsArgs :
    LET data    == Data1D[di]
        m       == SizeArgs[mi]
        numSets == NumSetsArgs[ni]
        r       == get1DSamplesWithoutReplacement(deviates, data, m, numSets)
    IN  /\ pc = "ready"
        /\ call' = [op |-> "get1DSamplesWithoutReplacement", data |-> data,
                    m |-> m, numSets |-> numSets]
        /\ deviates' = r.g
        /\ ret' = Return(r.val)
        /\ picked' = r.idx
        /\ pc' = "returned"
        /\ UNCHANGED <<app, last, dist, fitted, dev, out, lastSeed, ncalls, heap, pl, prev>>

Call2DWith ==
  \E di \in DOMAIN Pairs2D, ni \in DOMAIN NumSetsArgs :
    LET xy      == Pairs2D[di]
        numSets == NumSetsArgs[ni]
        r       == get2DSamplesWithReplacement(deviates, xy[1], xy[2], numSets)
    IN  /\ pc = "ready"
        /\ call' = [op |-> "get2DSamplesWithReplacement", x |-> xy[1],
                    y |-> xy[2], numSets |-> numSets]
        /\ deviates' = r.g
        /\ ret' = Return(r.val)
        /\ picked' = r.idx
        /\ pc' = "returned"
        /\ UNCHANGED <<app, last, dist, fitted, dev, out, lastSeed, ncalls, heap, pl, prev>>

Call2DWithout ==
  \E di \in DOMAIN Pairs2D, mi \in DOMAIN SizeArgs, ni \in DOMAIN NumSetsArgs :
    LET xy      == Pairs2D[di]
        m       == SizeArgs[mi]
        numSets == NumSetsArgs[ni]
        r       == get2DSamplesWithoutReplacement(deviates, xy[1], xy[2], m, numSets)
    IN  /\ pc = "ready"
        /\ call' = [op |-> "get2DSamplesWithoutReplacement", x |-> xy[1],
                    y |-> xy[2], m |-> m, numSets |-> numSets]
        /\ deviates' = r.g
        /\ ret' = Return(r.val)
        /\ picked' = r.idx
        /\ pc' = "returned"
        /\ UNCHANGED <<app, last, dist, fitted, dev, out, lastSeed, ncalls, heap, pl, prev>>

NextBag == Call1DWith \/ Call1DWithout \/ Call2DWith \/ Call2DWithout

SpecBag == InitBag /\ [][NextBag]_vars

\* an integer B >= 1
ValidCount(v) == IsFinite(v) /\ v.d = 1 /\ v.n >= 1

\* the 1D source array of the last call, or its x array
Source == IF "data" \in DOMAIN call THEN call.data.arr ELSE call.x.arr

\* a last call with n >= 1 points (2D: x and y of equal length)
GoodSource ==
  /\ call.op # "none"
  /\ IsArray(IF "data" \in DOMAIN call THEN call.data ELSE call.x)
  /\ Len(Source) >= 1
  /\ "y" \in DOMAIN call => IsArray(call.y) /\ Len(call.y.arr) = Len(Source)

\* set i of the value returned holds the source values at the indices idx
TakenFrom(i, idx) ==
  IF "data" \in DOMAIN call
  THEN /\ Len(ret.val[i]) = Len(idx)
       /\ \A k \in 1..Len(idx) : ret.val[i][k] = call.data.arr[idx[k] + 1]
  ELSE /\ Len(ret.val[i].x) = Len(idx)
       /\ Len(ret.val[i].y) = Len(idx)
       /\ \A k \in 1..Len(idx) : /\ ret.val[i].x[k] = call.x.arr[idx[k] + 1]
                                 /\ ret.val[i].y[k] = call.y.arr[idx[k] + 1]

\* C3: the with-replacement operations, on n >= 1 points and a valid numSets
\* B, return exactly B sets of exactly n elements, each the source value at an
\* index in 0..n-1, x[k] and y[k] of a 2D set coming from the same index.
C3_WithReplacementShape ==
  (/\ call.op \in {"get1DSamplesWithReplacement", "get2DSamplesWithReplacement"}
   /\ GoodSource
   /\ ValidCount(call.numSets))
    => /\ Len(ret.val) = call.numSets.n
       /\ Len(picked) = call.numSets.n
       /\ \A i \in 1..Len(picked) :
            /\ Len(picked[i]) = Len(Source)
            /\ \A k \in 1..Len(picked[i]) : picked[i][k] \in 0..(Len(Source) - 1)
            /\ TakenFrom(i, picked[i])

\* a 2D call on the longest data that returned two sets, one repeating an index
C3_Witness ==
  /\ call.op = "get2DSamplesWithReplacement"
  /\ GoodSource
  /\ Len(call.x.arr) = MaxN
  /\ call.numSets = R(2)
  /\ Len(ret.val) = 2
  /\ \E i \in 1..2 : \E k, l \in 1..MaxN : k # l /\ picked[i][k] = picked[i][l]

XS(n) == [i \in 1..n |-> R(i - 1 - n \div 2)]

\* n points on y = a*x + b
LineY(n, a, b) == [i \in 1..n |-> R(a * XS(n)[i].n + b)]

\* n points on y = x^2 - x + 2
QuadY(n) == [i \in 1..n |-> R(XS(n)[i].n * XS(n)[i].n - XS(n)[i].n + 2)]

\* n points on no polynomial of low order
RoughY(n) == [i \in 1..n |-> R((i * i * i) % 5)]

\* the data the callers pass, as <<x, y>>
FitData ==
  [k \in 1..(MaxPts + 1) |-> <<Arr(XS(k - 1)), Arr(LineY(k - 1, 2, 1))>>]
    \o [k \in 1..(MaxPts + 1) |-> <<Arr(XS(k - 1)), Arr(LineY(k - 1, 0, 1))>>]
    \o [k \in 1..(MaxPts + 1) |-> <<Arr(XS(k - 1)), Arr(QuadY(k - 1))>>]
    \o [k \in 1..(MaxPts + 1) |-> <<Arr(XS(k - 1)), Arr(RoughY(k - 1))>>]
    \o << <<Null, Arr(LineY(3, 2, 1))>>,
           <<Arr(XS(3)), Null>>,
           <<Arr(XS(2)), Null>>,
           <<Arr(XS(MaxPts)), Arr(LineY(MaxPts - 1, 2, 1))>>,
           <<Arr(XS(3)), Arr(LineY(MaxPts, 2, 1))>>,
           <<Arr([i \in 1..3 |-> R(1)]), Arr(LineY(3, 2, 1))>> >>

\* the orders the callers pass
Orders == <<R(1), R(2), Q(3, 2), Q(5, 4), Q(1, 2), R(0), R(-1), NaN, Undefined>>

FitSizeArgs == [k \in 1..MaxPts |-> R(k)] \o <<Undefined>>

\* the call c made on the heap h, the polynomial estimator p and the
\* resampler's generator g
Perform(c, h, p, g) ==
  CASE c.op = "LLSQ.fit" ->
         Bind(LLSQ_fit(h, c.x, c.y), LAMBDA o :
           [heap |-> o.heap, pl |-> p, g |-> g, idx |-> <<>>, ret |-> o.ret])
    [] c.op = "Pllsq.fit" ->
         Bind(Pllsq_fit(h, p, c.x, c.y, c.m), LAMBDA o :
           [heap |-> o.heap, pl |-> o.pl, g |-> g, idx |-> <<>>, ret |-> o.ret])
    [] c.op = "bagFit" ->
         Bind(bagFit(h, g, c.x, c.y, c.numSets), LAMBDA o :
           [heap |-> o.heap, pl |-> p, g |-> o.g, idx |-> o.idx, ret |-> o.ret])
    [] c.op = "subbagFit" ->
         Bind(subbagFit(h, g, c.x, c.y, c.m, c.numSets), LAMBDA o :
           [heap |-> o.heap, pl |-> p, g |-> o.g, idx |-> o.idx, ret |-> o.ret])
    [] c.op = "Pllsq.eval" ->
         [heap |-> h, pl |-> p, g |-> g, idx |-> <<>>,
          ret |-> Return(Pllsq_eval(h, p, c.x))]

\* the call c with outcome o was a TSMT$Pllsq.fit that returned coefficients
\* (only the empty result has a field r)
Succeeded(c, o) ==
  /\ c.op = "Pllsq.fit"
  /\ ~o.ret.threw
  /\ "r" \notin DOMAIN o.heap[o.ret.val.ref]

\* fitted after the call c with outcome o
FittedBy(c, o, old) ==
  IF Succeeded(c, o)
  THEN [coef |-> o.heap[o.heap[o.ret.val.ref].coef.ref].arr,
        ref  |-> o.heap[o.ret.val.ref].coef]
  ELSE old

\* the caller makes the call c and gets its outcome
Invoke(c, after) ==
  \E o \in {Perform(c, heap, pl, deviates)} :
    /\ call' = c
    /\ heap' = o.heap
    /\ pl' = o.pl
    /\ deviates' = o.g
    /\ picked' = o.idx
    /\ ret' = o.ret
    /\ prev' = ret
    /\ fitted' = FittedBy(c, o, fitted)
    /\ pc' = after
    /\ UNCHANGED <<app, last, dist, dev, out, lastSeed, ncalls>>

CallLLSQFit ==
  /\ pc = "ready"
  /\ \E di \in DOMAIN FitData :
       Invoke([op |-> "LLSQ.fit", x |-> FitData[di][1], y |-> FitData[di][2]],
              "returned")

CallPllsqFit ==
  /\ pc = "ready"
  /\ \E di \in DOMAIN FitData, mi \in DOMAIN Orders :
       Invoke([op |-> "Pllsq.fit", x |-> FitData[di][1], y |-> FitData[di][2],
               m |-> Orders[mi]], "returned")

CallBagFit ==
  /\ pc = "ready"
  /\ \E di \in DOMAIN FitData, ni \in DOMAIN NumSetsArgs :
       Invoke([op |-> "bagFit", x |-> FitData[di][1], y |-> FitData[di][2],
               numSets |-> NumSetsArgs[ni]], "returned")

CallSubbagFit ==
  /\ pc = "ready"
  /\ \E di \in DOMAIN FitData, mi \in DOMAIN FitSizeArgs, ni \in DOMAIN NumSetsArgs :
       Invoke([op |-> "subbagFit", x |-> FitData[di][1], y |-> FitData[di][2],
               m |-> FitSizeArgs[mi], numSets |-> NumSetsArgs[ni]], "returned")

\* the caller writes to the object it got back: result.a = 7, or a push(7) on
\* the array the result holds (coef, fits)
Mutate ==
  /\ pc = "returned"
  /\ ~ret.threw
  /\ \E f \in DOMAIN heap[ret.val.ref] \cap {"a", "coef", "fits"} :
       heap' = IF f = "a" THEN [heap EXCEPT ![ret.val.ref].a = R(7)]
               ELSE [heap EXCEPT ![heap[ret.val.ref][f].ref] =
                                    Arr(Append(@.arr, R(7)))]
  /\ pc' = "changed"
  /\ UNCHANGED <<app, last, dist, fitted, dev, out, lastSeed, ncalls, deviates, call, ret, picked, pl, prev>>

\* the caller repeats its call
CallAgain ==
  /\ pc \in {"returned", "changed"}
  /\ Invoke(call, "done")

NextFit ==
  \/ CallLLSQFit
  \/ CallPllsqFit
  \/ CallBagFit
  \/ CallSubbagFit
  \/ Mutate
  \/ CallAgain

SpecFit == Init /\ [][NextFit]_vars

\* the last call has just returned or thrown
AtReturn == pc \in {"returned", "done"}

\* both arguments are arrays
Arrays == IsArray(call.x) /\ IsArray(call.y)

SameLength == Arrays /\ Len(call.x.arr) = Len(call.y.arr)

\* the object the last call returned
Result == heap[ret.val.ref]

\* the array the result holds in its field f
ResultArray(f) == heap[Result[f].ref].arr

\* coefficients of the generating lines and polynomials
CoefRange == -3..3

\* c[1] + c[2]*x + ... + c[k+1]*x^k for integer coefficients c
PolyValue(c, xv) ==
  Sum([j \in 1..Len(c) |-> IF j = 1 THEN R(c[1]) ELSE Mul(R(c[j]), Pow(xv, j - 1))])

\* the points (x[i], y[i]) of the last call lie on the polynomial c
OnPoly(c) ==
  \A i \in 1..Len(call.x.arr) : call.y.arr[i] = PolyValue(c, call.x.arr[i])

DistinctX ==
  \A i, j \in 1..Len(call.x.arr) : i # j => call.x.arr[i] # call.x.arr[j]

\* C5: for n >= 3 points with not-all-equal x that lie exactly on a line
\* y = a*x + b (integer a and b, a = 0 included), TSMT$LLSQ.fit returns slope a
\* in field a, intercept b in field b, chi-squared 0 and R-squared 1.
C5_LineRecovered ==
  (/\ AtReturn
   /\ call.op = "LLSQ.fit"
   /\ SameLength
   /\ Len(call.x.arr) >= 3
   /\ \E i, j \in 1..Len(call.x.arr) : call.x.arr[i] # call.x.arr[j])
    => \A a, b \in CoefRange :
         OnPoly(<<b, a>>)
           => /\ ~ret.threw
              /\ Result.a = R(a)
              /\ Result.b = R(b)
              /\ Result.chi2 = R(0)
              /\ Result.r = R(1)

\* the order of the last TSMT$Pllsq.fit call is the integer k
IsOrder(k) == call.op = "Pllsq.fit" /\ call.m = R(k)

\* C6: for every order k >= 1 and n >= k+1 points with distinct x generated
\* exactly from a polynomial of degree k, TSMT$Pllsq.fit(x, y, k) returns the
\* k+1 generating coefficients (index i the coefficient of x^i) and RMS 0, also
\* for exactly k+1 points.
C6_PolynomialRecovered ==
  \A k \in 1..2 :
    (/\ AtReturn
     /\ IsOrder(k)
     /\ SameLength
     /\ Len(call.x.arr) >= k + 1
     /\ DistinctX)
      => \A c \in [1..(k + 1) -> CoefRange] :
           OnPoly(c)
             => /\ ~ret.threw
                /\ ResultArray("coef") = [j \in 1..(k + 1) |-> R(c[j])]
                /\ Result.rms = R(0)

\* a valid numSets B of the last call
ValidSets == "numSets" \in DOMAIN call /\ ValidCount(call.numSets)

\* the i-th resampled dataset of the last call, in the order the resampler
\* drew it
Resampled(i) ==
  [x |-> Values(call.x.arr, picked[i]), y |-> Values(call.y.arr, picked[i])]

\* TSMT$LLSQ.fit of the dataset d
FitOf(d) == IF Len(d.x) < 3 THEN ZeroFit ELSE LLSQFit(d.x, d.y)

\* fits[i] of the result, as an object
FitAt(i) == heap[ResultArray("fits")[i].ref]

\* C7: for equal-length inputs with n >= 3 and a valid numSets B, bagFit and
\* subbagFit return a fits list of exactly B results, fits[i] being
\* TSMT$LLSQ.fit of the i-th resampled dataset in resampler order, and a and b
\* are the sums of the fits' a and b divided by B.
C7_BaggedFitAverages ==
  (/\ AtReturn
   /\ call.op \in {"bagFit", "subbagFit"}
   /\ SameLength
   /\ Len(call.x.arr) >= 3
   /\ ValidSets)
    => /\ ~ret.threw
       /\ Len(ResultArray("fits")) = call.numSets.n
       /\ Len(picked) = call.numSets.n
       /\ \A i \in 1..call.numSets.n : FitAt(i) = FitOf(Resampled(i))
       /\ Result.a = Div(Sum([i \in 1..call.numSets.n |-> FitAt(i).a]), call.numSets)
       /\ Result.b = Div(Sum([i \in 1..call.numSets.n |-> FitAt(i).b]), call.numSets)

\* a bagFit of two bags whose fits differ, with a finite average slope
C7_Witness ==
  /\ pc = "returned"
  /\ call.op = "bagFit"
  /\ SameLength
  /\ Len(call.x.arr) >= 3
  /\ call.numSets = R(2)
  /\ ~ret.threw
  /\ Len(ResultArray("fits")) = 2
  /\ FitAt(1) # FitAt(2)
  /\ IsFinite(Result.a)
  /\ Result.a # R(0)

\* the result every entry point documents for inputs it cannot fit
Degenerate ==
  /\ ~ret.threw
  /\ CASE call.op = "LLSQ.fit" -> Result = ZeroFit
       [] call.op = "Pllsq.fit" -> ResultArray("coef") = <<>> /\ Result.rms = R(0)
       [] OTHER -> /\ Result.a = R(0)
                   /\ Result.b = R(0)
                   /\ ResultArray("fits") = <<>>

\* C8: when x or y is null, or x.length differs from y.length, every fitting
\* entry point returns its degenerate zero/empty result and raises no
\* exception.
C8_InvalidInputDegenerate ==
  (/\ AtReturn
   /\ \/ call.x = Null
      \/ call.y = Null
      \/ Arrays /\ Len(call.x.arr) # Len(call.y.arr))
    => Degenerate

\* x of the last call is an array of fewer than three points
FewPoints == IsArray(call.x) /\ Len(call.x.arr) < 3

\* C9: with fewer than 3 points TSMT$LLSQ.fit returns a result whose six
\* fields are 0, and bagFit and subbagFit return a = 0, b = 0 and an empty
\* fits list; the result (and its fits list) is an object built by that call,
\* not the one an earlier call returned, whatever was done to the earlier one.
C9_FewPointsFreshZero ==
  (AtReturn /\ FewPoints /\ call.op \in {"LLSQ.fit", "bagFit", "subbagFit"})
    => /\ Degenerate
       /\ (pc = "done" /\ ~prev.threw)
            => /\ ret.val # prev.val
               /\ call.op # "LLSQ.fit" => Result.fits # heap[prev.val.ref].fits

\* a fit of two points repeated after the caller set a = 7 in the first result
C9_Witness ==
  /\ pc = "done"
  /\ call.op = "LLSQ.fit"
  /\ IsArray(call.x)
  /\ Len(call.x.arr) = 2
  /\ ~prev.threw
  /\ heap[prev.val.ref].a = R(7)
  /\ ~ret.threw
  /\ Result = ZeroFit

\* floor(order) for order >= 1, and 1 for NaN and orders below 1
EffectiveOrder(order) ==
  IF IsNaN(order) \/ Lt(order, R(1)) THEN 1 ELSE order.n \div order.d

\* C10: TSMT$Pllsq.fit(x, y, order) fits with effective order floor(order)
\* for order >= 1 and 1 for NaN or order < 1: with n > effective order + 1
\* points it returns exactly effective order + 1 coefficients, and with fewer
\* points the empty result.
C10_EffectiveOrder ==
  (/\ AtReturn
   /\ call.op = "Pllsq.fit"
   /\ SameLength
   /\ DistinctX)
    => /\ ~ret.threw
       /\ Len(ResultArray("coef")) =
            IF Len(call.x.arr) > EffectiveOrder(call.m) + 1
            THEN EffectiveOrder(call.m) + 1 ELSE 0

(***************************************************************************)
(* Specification SpecPoly: a caller of one TSMT$Pllsq instance, who fits,  *)
(* evaluates, and writes to the coefficient arrays it was given            *)
(***************************************************************************)
PolyData ==
  << <<Arr(XS(3)), Arr(LineY(3, 2, 1))>>,
     <<Arr(XS(MaxPts)), Arr(QuadY(MaxPts))>>,
     <<Arr(XS(2)), Arr(LineY(2, 2, 1))>>,
     <<Null, Arr(LineY(3, 2, 1))>>,
     <<Arr([i \in 1..3 |-> R(1)]), Arr(LineY(3, 2, 1))>> >>

PolyOrders == <<R(1), R(2)>>

EvalPoints == <<R(0), R(2)>>

\* the caller makes the call c and gets its outcome
PolyCall(c) ==
  /\ ncalls' = ncalls + 1
  /\ \E o \in {Perform(c, heap, pl, deviates)} :
       /\ call' = c
       /\ heap' = o.heap
       /\ pl' = o.pl
       /\ ret' = o.ret
       /\ prev' = ret
       /\ fitted' = FittedBy(c, o, fitted)
  /\ pc' = "returned"
  /\ UNCHANGED <<app, last, dev, dist, out, lastSeed, deviates, picked>>

PolyFit ==
  /\ ncalls < MaxPolyCalls
  /\ \E di \in DOMAIN PolyData, mi \in DOMAIN PolyOrders :
       PolyCall([op |-> "Pllsq.fit", x |-> PolyData[di][1], y |-> PolyData[di][2],
                 m |-> PolyOrders[mi]])

PolyEval ==
  /\ ncalls < MaxPolyCalls
  /\ \E xi \in DOMAIN EvalPoints :
       PolyCall([op |-> "Pllsq.eval", x |-> EvalPoints[xi]])

\* the caller writes to the coefficient array of the last successful fit:
\* coef[0] = 7 or coef.push(7)
PolyChange ==
  /\ fitted # Undefined
  /\ pc = "returned"
  /\ \E push \in BOOLEAN :
       heap' = [heap EXCEPT ![fitted.ref.ref] =
                  Arr(IF push THEN Append(@.arr, R(7)) ELSE [@.arr EXCEPT ![1] = R(7)])]
  /\ pc' = "changed"
  /\ UNCHANGED <<app, last, dev, dist, out, lastSeed, ncalls, deviates, call, ret, picked, pl,
                 prev, fitted>>

NextPoly == PolyFit \/ PolyEval \/ PolyChange

SpecPoly == Init /\ [][NextPoly]_vars

\* c[1] + c[2]*x + c[3]*x^2 + ... for coefficients c
PolySum(c, xv) ==
  Sum([j \in 1..Len(c) |-> IF j = 1 THEN c[1] ELSE Mul(c[j], Pow(xv, j - 1))])

\* the coefficients the estimator holds
Cached == heap[pl.c.ref].arr

\* an eval call has just returned
Evaluated == pc = "returned" /\ call.op = "Pllsq.eval"

C12_ReturnedCoefSeparate ==
  (Evaluated /\ fitted # Undefined) => ret.val = PolySum(fitted.coef, call.x)

\* the normal-equations system of the last fit call is singular: fewer
\* distinct x than coefficients
FewDistinctX ==
  Cardinality({call.x.arr[i] : i \in 1..Len(call.x.arr)}) < CoefCount(call.m)

\* C13: when the solver fails on a singular normal-equations system,
\* TSMT$Pllsq.fit passes the failure on to its caller and returns no
\* coefficient vector.
C13_SolverFailureSurfaces ==
  (/\ pc = "returned"
   /\ call.op = "Pllsq.fit"
   /\ Arrays
   /\ Len(call.x.arr) > CoefCount(call.m)
   /\ FewDistinctX)
    => /\ ret.threw
       /\ ret.val = SolverError

\* a fit of three points with one x, order 1
C13_Witness ==
  /\ pc = "returned"
  /\ call.op = "Pllsq.fit"
  /\ Arrays
  /\ Len(call.x.arr) = 3
  /\ call.m = R(1)
  /\ FewDistinctX
  /\ ret.threw

(***************************************************************************)
(* Specification SpecDev: a caller of one TSMT$Deviates instance, making   *)
(* up to MaxDevCalls calls of its five methods                             *)
(***************************************************************************)
\* the start argument of a call that re-initialises; normal(7, mu, sig, true)
\* rejects the pair it draws
DevSeeds == <<R(1001), R(5), R(7)>>

\* the start argument of a call that continues: only gamma reads it
ContinuedSeeds == <<R(1001), NaN>>

\* the start arguments of the calls of op
Starts(op, init) ==
  IF op = "gamma" THEN (IF init THEN Append(DevSeeds, NaN) ELSE ContinuedSeeds)
  ELSE IF init THEN DevSeeds
  ELSE <<R(1001)>>

\* mu and sig of normal and logistic
LocArgs == << <<R(-2), Q(1, 2)>>, <<R(3), R(2)>> >>

\* alpha and beta of gamma
GammaArgs == << <<Q(1, 2), Q(1, 100000)>>, <<R(5), R(7)>> >>

\* the instance is called when no call on it is still running
Callable == ncalls < MaxDevCalls /\ pc # "looping"

\* the call c is made and has the outcome o
DevCall(c, o) ==
  /\ call' = c
  /\ dev' = o.g
  /\ dist' = o.d
  /\ prev' = ret
  /\ ret' = o.ret
  /\ pc' = IF o.ret = NoReturn THEN "looping" ELSE "returned"
  /\ lastSeed' = IF c.init THEN c.start ELSE lastSeed
  /\ last' = IF ~c.init THEN last
             ELSE IF c.op \in {"normal", "logistic"} THEN [last EXCEPT !.loc = c]
             ELSE IF c.op = "gamma" THEN [last EXCEPT !.gam = c]
             ELSE last
  /\ ncalls' = ncalls + 1
  /\ UNCHANGED <<app, out, deviates, picked, heap, pl, fitted>>

CallUniform ==
  /\ Callable
  /\ \E init \in BOOLEAN : \E si \in DOMAIN Starts("uniform", init) :
       \E un \in {Uniform(dev, Starts("uniform", init)[si], init)} :
         DevCall([op |-> "uniform", start |-> Starts("uniform", init)[si], init |-> init],
                 Outcome(un.g, dist, Return(un.val)))

CallExponential ==
  /\ Callable
  /\ \E init \in BOOLEAN : \E si \in DOMAIN Starts("exponential", init) :
       \E o \in {Deviates_exponential(dev, dist, Starts("exponential", init)[si], init)} :
         DevCall([op |-> "exponential", start |-> Starts("exponential", init)[si],
                  init |-> init], o)

CallNormal ==
  /\ Callable
  /\ \E init \in BOOLEAN :
       \E si \in DOMAIN Starts("normal", init), li \in DOMAIN LocArgs :
       \E o \in {Deviates_normal(dev, dist, Starts("normal", init)[si], LocArgs[li][1],
                                 LocArgs[li][2], init)} :
         DevCall([op |-> "normal", start |-> Starts("normal", init)[si],
                  mu |-> LocArgs[li][1],
                  sig |-> LocArgs[li][2], init |-> init], o)

CallGamma ==
  /\ Callable
  /\ \E init \in BOOLEAN :
       \E si \in DOMAIN Starts("gamma", init), gi \in DOMAIN GammaArgs :
       \E o \in Deviates_gamma(dev, dist, Starts("gamma", init)[si], GammaArgs[gi][1],
                               GammaArgs[gi][2], init) :
         DevCall([op |-> "gamma", start |-> Starts("gamma", init)[si],
                  alpha |-> GammaArgs[gi][1], beta |-> GammaArgs[gi][2],
                  init |-> init], o)

CallLogistic ==
  /\ Callable
  /\ \E init \in BOOLEAN :
       \E si \in DOMAIN Starts("logistic", init), li \in DOMAIN LocArgs :
       \E o \in {Deviates_logistic(dev, dist, Starts("logistic", init)[si],
                                   LocArgs[li][1],
                                   LocArgs[li][2], init)} :
         DevCall([op |-> "logistic", start |-> Starts("logistic", init)[si],
                  mu |-> LocArgs[li][1],
                  sig |-> LocArgs[li][2], init |-> init], o)

NextDev ==
  CallUniform \/ CallExponential \/ CallNormal \/ CallGamma \/ CallLogistic

SpecDev == Init /\ [][NextDev]_vars

\* a caller that makes normal calls only
SpecNormal == Init /\ [][CallNormal]_vars

\* a value the caller can use as a finite number: symbols stand for finite
\* numbers when their parts are finite
Finite(v) ==
  IF IsNum(v) THEN IsFinite(v)
  ELSE IF "mean" \in DOMAIN v THEN IsFinite(v.mean) /\ IsFinite(v.scale)
  ELSE TRUE

ValidSeed(s) == IsNum(s) /\ ~IsNaN(s) /\ ~Lt(s, R(1))

\* the parameters of the call c are in the range of its distribution
ValidParams(c) ==
  CASE c.op \in {"normal", "logistic"} -> IsFinite(c.mu) /\ IsFinite(c.sig)
                                          /\ Lt(R(0), c.sig)
    [] c.op = "gamma" -> IsFinite(c.alpha) /\ IsFinite(c.beta)
                         /\ Lt(R(0), c.alpha) /\ Lt(R(0), c.beta)
    [] OTHER -> TRUE

Distributions == {"exponential", "normal", "logistic", "gamma"}

\* a call has been made and is the last one
Called == pc \in {"returned", "looping"}

\* C14: a call of exponential, normal, logistic or gamma with a seed >= 1 and
\* valid parameters, with init = true or with init = false on a seeded
\* instance, ends its loop and returns a finite number.
C14_DeviateReturnsFinite ==
  (/\ Called
   /\ call.op \in Distributions
   /\ ValidSeed(call.start)
   /\ ValidParams(call)
   /\ (call.init \/ (lastSeed # Undefined /\ ValidSeed(lastSeed))))
    => (pc = "returned" /\ Finite(ret.val))

\* C15: on an instance that was never seeded (no call with init = true), every
\* call with init = false returns to its caller, whatever calls came before.
C15_UnseededCallsReturn ==
  (Called /\ lastSeed = Undefined) => (pc = "returned" /\ ~ret.threw)

\* the step is a call of normal
NormalStep == ncalls' = ncalls + 1 /\ call'.op = "normal"

\* the other deviate of the pair z was made from
Partner(z) == IF z = NaN THEN NaN ELSE [polar |-> z.with, with |-> z.polar]

FreshNormal(c) ==
  Deviates_normal(NewDeviates, NewDist, c.start, c.mu, c.sig, TRUE).ret

\* C17: the outcome of a call normal(s, mean, stddev, true) is the one the same
\* call has on a new instance, whatever calls were made on the instance before.
C17_NormalReseedDetermined ==
  (Called /\ call.op = "normal" /\ call.init) => ret = FreshNormal(call)

\* C18: after a call normal or logistic (s, mu, sig, true) with a finite mu of
\* either sign and sig > 0, that call and the normal and logistic calls with
\* init = false that follow it apply the mean mu and the scale sig.
C18_MeanAndScaleAsGiven ==
  (/\ Called
   /\ call.op \in {"normal", "logistic"}
   /\ last.loc # NoCall
   /\ IsFinite(last.loc.mu)
   /\ IsFinite(last.loc.sig)
   /\ Lt(R(0), last.loc.sig))
    => /\ dist.u = last.loc.mu
       /\ dist.s = last.loc.sig
       /\ (pc = "returned" /\ ~IsNum(ret.val))
            => (ret.val.mean = last.loc.mu /\ ret.val.scale = last.loc.sig)

\* the shape for a finite alpha > 0 and the scale for a finite beta
ShapeFor(alpha) == IF Lt(alpha, R(1)) THEN Add(alpha, R(1)) ELSE alpha

ScaleFor(beta) == IF Lt(beta, Q(1, 10000)) THEN Q(1, 10000) ELSE beta

\* C19: after a gamma call, the cached shape and scale and the constants
\* derived from them are those of the last gamma call with init = true: alpha
\* (alpha + 1 below 1) and beta (1e-4 below 1e-4); a gamma call with
\* init = false leaves them as they were.
C19_GammaShapeAndScale ==
  (/\ Called
   /\ call.op = "gamma"
   /\ last.gam # NoCall
   /\ IsFinite(last.gam.alpha)
   /\ Lt(R(0), last.gam.alpha)
   /\ IsFinite(last.gam.beta))
    => /\ dist.a = ShapeFor(last.gam.alpha)
       /\ dist.b = ScaleFor(last.gam.beta)
       /\ dist.a1 = Sub(dist.a, Q(1, 3))
       /\ dist.a2 = Recip(Sqrt(Mul(R(9), dist.a1)))
       /\ (pc = "returned" /\ ~IsNum(ret.val))
            => (ret.val.a1 = dist.a1 /\ ret.val.b = dist.b)

\* a numSets argument that is omitted, null, NaN or below 1
DefaultedSets(numSets) ==
  Falsy(numSets) \/ IsNaN(numSets) \/ Lt(numSets, R(1))

\* C20: each of the four sampling operations, called on n >= 1 points with a
\* numSets that is omitted, null, NaN or below 1, returns exactly n sets.
C20_NumSetsDefaultsToN ==
  (/\ call.op \in {"get1DSamplesWithReplacement", "get1DSamplesWithoutReplacement",
                   "get2DSamplesWithReplacement", "get2DSamplesWithoutReplacement"}
   /\ GoodSource
   /\ DefaultedSets(call.numSets))
    => Len(ret.val) = Len(Source)

\* a sample size that is omitted, NaN, below 1 or above n
DefaultedSize(m, n) ==
  m = Undefined \/ IsNaN(m) \/ Lt(m, R(1)) \/ Lt(R(n), m)

\* C21: the two without-replacement operations, called on n >= 1 points with a
\* sample size that is omitted, NaN, below 1 or above n, return sets of exactly
\* floor(n/2) elements.
C21_SampleSizeDefaultsToHalf ==
  (/\ call.op \in {"get1DSamplesWithoutReplacement", "get2DSamplesWithoutReplacement"}
   /\ GoodSource
   /\ DefaultedSize(call.m, Len(Source)))
    => \A i \in 1..Len(picked) : Len(picked[i]) = Len(Source) \div 2

(***************************************************************************)
(* Specification SpecShared: a call of a sampling operation or of a bagged *)
(* fit, made on the static generator as earlier sampling calls left it     *)
(***************************************************************************)
\* ncalls is the number of sampling calls made before
InitShared ==
  /\ \E g \in PriorDeviates :
       deviates = g /\ ncalls = IF g = NewDeviates THEN 0 ELSE 1
  /\ dev = NewDeviates
  /\ out = <<>>
  /\ lastSeed = Undefined
  /\ call = NoCall
  /\ ret = NoRet
  /\ picked = <<>>
  /\ heap = NewHeap
  /\ pl = NewPllsq
  /\ prev = NoRet
  /\ fitted = Undefined
  /\ dist = NewDist
  /\ last = NoLast
  /\ pc = "ready"
  /\ app = NewApp

NextShared ==
  \/ Call1DWith
  \/ Call1DWithout
  \/ Call2DWith
  \/ Call2DWithout
  \/ CallBagFit
  \/ CallSubbagFit

SpecShared == InitShared /\ [][NextShared]_vars

\* what a sampling operation gives on the heap h
SampledOn(h, sm) == [heap |-> h, ret |-> Return(sm.val), idx |-> sm.idx]

\* the call c made with a generator that was never used
Afresh(c) ==
  CASE c.op = "get1DSamplesWithReplacement" ->
         SampledOn(NewHeap,
                   get1DSamplesWithReplacement(NewDeviates, c.data, c.numSets))
    [] c.op = "get1DSamplesWithoutReplacement" ->
         SampledOn(NewHeap,
                   get1DSamplesWithoutReplacement(NewDeviates, c.data, c.m,
                                                  c.numSets))
    [] c.op = "get2DSamplesWithReplacement" ->
         SampledOn(NewHeap,
                   get2DSamplesWithReplacement(NewDeviates, c.x, c.y, c.numSets))
    [] c.op = "get2DSamplesWithoutReplacement" ->
         SampledOn(NewHeap,
                   get2DSamplesWithoutReplacement(NewDeviates, c.x, c.y, c.m,
                                                  c.numSets))
    [] OTHER ->
         Bind(Perform(c, NewHeap, NewPllsq, NewDeviates),
              LAMBDA o : [heap |-> o.heap, ret |-> o.ret, idx |-> o.idx])

\* C22: a call of a sampling operation, of bagFit or of subbagFit returns what
\* the same call returns when no sampling call was made before it (the same
\* indices drawn, the same values and objects returned), whatever state earlier
\* calls left the static generator in: two calls with equal arguments return
\* equal results.
C22_SamplingCallsIndependent ==
  call.op # "none" =>
    \E o \in {Afresh(call)} : heap = o.heap /\ ret = o.ret /\ picked = o.idx

\* a bagged fit of two bags made after an earlier sampling call
C22_Witness ==
  /\ ncalls = 1
  /\ call.op = "bagFit"
  /\ ~ret.threw
  /\ Len(picked) = 2
  /\ picked[1] # picked[2]

(***************************************************************************)
(* Specification SpecTrain: the component starts the training in           *)
(* ngAfterViewInit; the training runs epoch by epoch, suspended between    *)
(* epochs, and fits are made while it is suspended and after it            *)
(***************************************************************************)
MaxEpochs == 2

MaxAppFits == 2

\* the drawing surface
Surface == [width |-> 14, height |-> 14]

\* the points of the data set, as <<x, y>>
AppData ==
  << <<(<<R(0), R(1), R(2), R(4)>>), (<<R(4), R(2), R(2), R(0)>>)>>,
     <<(<<R(1), R(2), R(5)>>), (<<R(2), R(0), R(1)>>)>> >>

FitTypes ==
  <<"LLSQ", "LLSQ_BAG", "LLSQ_SUB_BAG", "QUAD_LSQ", "CUBIC_LSQ", "QUARTIC_LSQ">>

\* fit(type) of the component a on the heap h, the polynomial estimator p and
\* the resampler's generator g: the library call on the plotted data and, for
\* a polynomial, the start of the curve, this._polyFit.eval(this._x[0])
fit(type, a, h, p, g) ==
  Bind(FitCall(type, Plotted(a)), LAMBDA c :
    Bind(Perform(c, h, p, g), LAMBDA o :
      [call |-> c, heap |-> o.heap, pl |-> o.pl, g |-> o.g, idx |-> o.idx,
       ret |-> o.ret,
       moveTo |-> IF c.op = "Pllsq.fit"
                  THEN Pllsq_eval(o.heap, o.pl, Elem(a._x.arr, 0))
                  ELSE Undefined]))

\* ngAfterViewInit up to the first suspension of the training it starts
ngAfterViewInit ==
  /\ app.at = "constructed"
  /\ \E di \in DOMAIN AppData, k \in 0..MaxEpochs :
       \E a \in {ViewInit(app, Surface, AppData[di], k)} : app' = a
  /\ UNCHANGED <<dev, dist, out, lastSeed, last, ncalls, deviates, call, ret, picked,
                 heap, pl, prev, fitted, pc>>

\* one pass of the loop over the samples
TrainStep ==
  /\ app.at = "epoch"
  /\ app.i < app.n
  /\ app' = Minimize(app)
  /\ UNCHANGED <<dev, dist, out, lastSeed, last, ncalls, deviates, call, ret, picked,
                 heap, pl, prev, fitted, pc>>

\* the loop over the samples is left and the training waits for a frame
Suspend ==
  /\ app.at = "epoch"
  /\ app.i >= app.n
  /\ app' = Suspended(app)
  /\ UNCHANGED <<dev, dist, out, lastSeed, last, ncalls, deviates, call, ret, picked,
                 heap, pl, prev, fitted, pc>>

\* the host delivers the frame, once the running handler has returned
Resume ==
  /\ app.at = "awaiting"
  /\ app.handler = "none"
  /\ app' = Resumed(app)
  /\ UNCHANGED <<dev, dist, out, lastSeed, last, ncalls, deviates, call, ret, picked,
                 heap, pl, prev, fitted, pc>>

\* the loop over the epochs is left and done() is called
Complete ==
  /\ app.at = "exit"
  /\ app' = TrainingComplete(app)
  /\ UNCHANGED <<dev, dist, out, lastSeed, last, ncalls, deviates, call, ret, picked,
                 heap, pl, prev, fitted, pc>>

\* the handler fit(type) runs
AppFit(type) ==
  \E o \in {fit(type, app, heap, pl, deviates)} :
    /\ call' = o.call
    /\ heap' = o.heap
    /\ pl' = o.pl
    /\ deviates' = o.g
    /\ picked' = o.idx
    /\ ret' = o.ret
    /\ prev' = ret
    /\ fitted' = FittedBy(o.call, o, fitted)
    /\ app' = [app EXCEPT !.moveTo = o.moveTo, !.handler = "none"]
    /\ UNCHANGED <<dev, dist, out, lastSeed, last, pc>>

\* the rest of ngAfterViewInit: this.fit(this.LLSQ)
InitialFit ==
  /\ app.handler = "ngAfterViewInit"
  /\ app.at \in {"awaiting", "returned"}
  /\ AppFit("LLSQ")
  /\ UNCHANGED ncalls

\* a fit type is selected while the training is suspended or after it
SelectFit ==
  /\ app.handler = "none"
  /\ app.at \in {"awaiting", "returned"}
  /\ ncalls < MaxAppFits
  /\ \E ti \in DOMAIN FitTypes : AppFit(FitTypes[ti])
  /\ ncalls' = ncalls + 1

Training == ngAfterViewInit \/ TrainStep \/ Suspend \/ Resume \/ Complete

NextTrain ==
  \/ ngAfterViewInit
  \/ TrainStep
  \/ Suspend
  \/ Resume
  \/ Complete
  \/ InitialFit
  \/ SelectFit

SpecTrain == Init /\ [][NextTrain]_vars

\* the host delivers every frame and runs every handler to its end
SpecTrainFair == SpecTrain /\ WF_vars(Training) /\ WF_vars(InitialFit)

\* the component with its plotted data and no training started
Quiet(a) == [NewApp EXCEPT !._x = a._x, !._y = a._y, !.moveTo = a.moveTo]

\* what the training reads and writes: the training set, the model
\* parameters and the position of the loop
TrainingOf(a) ==
  [a EXCEPT !._x = Undefined, !._y = Undefined, !.moveTo = Undefined,
            !.handler = "none"]

\* C23: a fit made while the training is suspended (or after it) leaves the
\* training set, the model parameters and the position of the training as
\* they were, and its result, the objects it returns, the polynomial cache and
\* the resampler's generator it leaves are those of the same fit made by a
\* component on which no training was started; a step of the training leaves
\* the heap of results, the polynomial cache, the resampler's generator and
\* the plotted data as they were.
C23_FitsAndTrainingApart ==
  [][/\ heap' # heap =>
          /\ TrainingOf(app') = TrainingOf(app)
          /\ \E ti \in DOMAIN FitTypes :
               /\ call' = FitCall(FitTypes[ti], <<app._x, app._y>>)
               /\ \E q \in {Quiet(app)} : \E o \in {fit(FitTypes[ti], q, heap, pl, deviates)} :
                    /\ heap' = o.heap
                    /\ pl' = o.pl
                    /\ deviates' = o.g
                    /\ ret' = o.ret
                    /\ picked' = o.idx
                    /\ app'.moveTo = o.moveTo
     /\ heap' = heap =>
          /\ UNCHANGED <<pl, deviates, call, ret, picked, fitted>>
          /\ app'.moveTo = app.moveTo
          /\ app.at # "constructed" => app'._x = app._x /\ app'._y = app._y
    ]_vars

\* two fits were made while the training was suspended, the second a
\* polynomial fit that returned coefficients, with epochs run before and left
C23_Witness ==
  /\ app.at = "awaiting"
  /\ app.iter = 1
  /\ app.numIterations = 2
  /\ ncalls = 2
  /\ call.op = "Pllsq.fit"
  /\ pl # NewPllsq
  /\ app.moveTo # Undefined

\* the sample the k-th optimizer step of a training reads, the samples taken
\* in index order epoch after epoch
SampleOf(a, k) ==
  <<a._trainX.arr[((k - 1) % a.n) + 1], a._trainY.arr[((k - 1) % a.n) + 1]>>

\* the steps and suspensions made so far are those of the position reached:
\* iter whole epochs of n steps, each followed by one suspension, and i steps
\* of the epoch in progress; the callback has run exactly when the training
\* has returned, after numIterations epochs
TrainingShape ==
  app.at # "constructed" =>
    /\ app.n = Len(app._trainX.arr)
    /\ app.iter <= app.numIterations
    /\ \A k \in 1..Len(app._dlVars) : app._dlVars[k] = SampleOf(app, k)
    /\ app.at = "epoch" =>
         /\ app.i <= app.n
         /\ Len(app._dlVars) = app.iter * app.n + app.i
         /\ app.frames = app.iter
    /\ app.at = "awaiting" =>
         /\ Len(app._dlVars) = (app.iter + 1) * app.n
         /\ app.frames = app.iter + 1
    /\ app.at \in {"exit", "returned"} =>
         /\ app.iter = app.numIterations
         /\ Len(app._dlVars) = app.numIterations * app.n
         /\ app.frames = app.numIterations
    /\ app.completed = IF app.at = "returned" THEN 1 ELSE 0
    /\ app.at = "returned" => app.dlCoefs = Arr(app._dlVars)

\* after the callback: no optimizer step, no suspension, no second callback
NothingAfterCompletion ==
  app.completed = 1 =>
    /\ app'._dlVars = app._dlVars
    /\ app'.frames = app.frames
    /\ app'.completed = 1

\* C26: a training started with numIterations epochs on n samples makes its
\* optimizer steps on the samples in index order, epoch after epoch, suspends
\* exactly once after the n steps of each epoch, and calls the completion
\* callback exactly once, after numIterations epochs of steps and as many
\* suspensions; no step, suspension or callback follows the callback, and the
\* callback is reached once the host delivers every frame.
C26_EpochsThenOneCallback ==
  /\ []TrainingShape
  /\ [][NothingAfterCompletion]_vars
  /\ <>(app.completed = 1)

\* the callback has run after two epochs on four samples, and a fit was made
\* afterwards
C26_Witness ==
  /\ app.completed = 1
  /\ app.numIterations = 2
  /\ app.n = 4
  /\ Len(app._dlVars) = 8
  /\ app.frames = 2
  /\ ncalls = 1

\* the slot a table value selects: floor(iy / NDIV)
SlotOf(iy) == MulDivFloor(iy, 16, NDIVx16)

\* the table value the last call returned, scaled by AM = 1/IM
LastOutput == out[Len(out)]

\* C24: a call uniform(s, false) that follows a call which returned the
\* (unclamped) table value iy reads the slot floor(iy / NDIV): it returns that
\* slot's entry, scaled, and replaces the entry by the advanced generator
\* state.
C24_SlotFromPreviousOutput ==
  [][(/\ out # <<>>
      /\ Len(out') = Len(out) + 1
      /\ LastOutput.d = IM)
       => \E j \in {SlotOf(LastOutput.n)} :
            /\ out'[Len(out')] = Scaled(dev.iv, j)
            /\ dev'.idum = Schrage(dev.idum)
            /\ dev'.iv = WriteSlot(dev.iv, j, dev'.idum)]_vars

\* a generator state or table entry in 1..IM-1
InRange(v) == 1 <= v /\ v <= IM - 1

\* a seed that is an integer in 1..IM-1
SeedInRange(s) == IsFinite(s) /\ s.d = 1 /\ InRange(s.n)

\* the values the update computes from idum on its way
Intermediates(idum) ==
  LET k == idum \div IQ
  IN  {k, k * IQ, idum - k * IQ, IA * (idum - k * IQ), IR * k,
       IA * (idum - k * IQ) - IR * k, Schrage(idum)}

\* the update of idum is exact, stays in range, and stays below 2^31 on its way
ExactUpdate(idum) ==
  /\ Schrage(idum) = MulDivMod(IA, idum, IM)[2]
  /\ InRange(Schrage(idum))
  /\ \A v \in Intermediates(idum) : -IM <= v /\ v <= IM

\* C25: since the last re-initialisation with an integer seed in 1..2^31-2, the
\* generator state and all 32 table entries are in 1..2^31-2, whatever calls
\* of uniform were made; and for the seed, the state and every table entry
\* (each a state the generator was in) one update yields exactly
\* (16807 * idum) mod (2^31 - 1), again in 1..2^31-2, with every intermediate
\* value of magnitude below 2^31.
C25_SchrageExactInRange ==
  (lastSeed # Undefined /\ SeedInRange(lastSeed)) =>
    /\ InRange(dev.idum)
    /\ Len(dev.iv) = NTAB
    /\ \A j \in 1..Len(dev.iv) : InRange(dev.iv[j])
    /\ ExactUpdate(lastSeed.n)
    /\ ExactUpdate(dev.idum)
    /\ \A j \in 1..Len(dev.iv) : ExactUpdate(dev.iv[j])

\* the greatest seed of the range, with continued calls after it and calls
\* with other seeds before it
C25_Witness ==
  /\ lastSeed = R(IM - 1)
  /\ Len(out) >= 3
  /\ ncalls >= Len(out) + 1

\* the fit that has just returned gave no coefficients: it returned the empty
\* result (null input, too few points) or the solver failed
FitFailed ==
  /\ pc = "returned"
  /\ call.op = "Pllsq.fit"
  /\ (ret.threw \/ "r" \in DOMAIN heap[ret.val.ref])

\* C27: a TSMT$Pllsq.fit that does not succeed (null input, too few points,
\* solver failure) leaves the cached coefficient array, its elements and the
\* cached order as they were before the call, and eval returns after it what
\* it returned before it.
C27_FailedFitKeepsCache ==
  [][(ncalls' = ncalls + 1 /\ FitFailed') =>
       /\ pl' = pl
       /\ heap'[pl.c.ref] = heap[pl.c.ref]
       /\ \A xi \in DOMAIN EvalPoints :
            Pllsq_eval(heap', pl', EvalPoints[xi]) = Pllsq_eval(heap, pl, EvalPoints[xi])
    ]_vars

\* the solver failed in a fit made after a fit that returned coefficients, and
\* the cache holds those coefficients
C27_Witness ==
  /\ FitFailed
  /\ ret.threw
  /\ fitted # Undefined
  /\ pl.n > 0
  /\ Cached = fitted.coef

\* C28: for arrays of equal length n >= 3, all-equal x included, the slope and
\* the intercept TSMT$LLSQ.fit returns are finite, and so are the averaged
\* slope and intercept TSMT$Bllsq.bagFit returns.
C28_FitIsFinite ==
  (/\ AtReturn
   /\ call.op \in {"LLSQ.fit", "bagFit"}
   /\ SameLength
   /\ Len(call.x.arr) >= 3)
    => /\ ~ret.threw
       /\ IsFinite(Result.a)
       /\ IsFinite(Result.b)

====
